---- MODULE Spec2Model ----
(***************************************************************************)
(* Reconciliation of Reddit submissions and their comment trees against    *)
(* the relational store: collector/services.py (CollectSubmissionsService) *)
(* and collector/use_cases.py (CollectThreadsUseCase).                     *)
(*                                                                         *)
(* Conventions.  Python None / SQL NULL is the empty tuple; an optional    *)
(* value that is present is a non-empty tuple (a datetime is <<epoch>>, a  *)
(* foreign key is the unique key of the row it points at).  Identifiers    *)
(* are tuples of characters so that slicing (id_str[3:]) is computed.      *)
(* Tables are sets of rows; the unique constraints of models.py are        *)
(* enforced by the create operators.  The wall clock read by the auto_now  *)
(* column modified_dt is the ordinal of the transaction in which the row   *)
(* is saved.  The MPTT bookkeeping columns (lft, rght, tree_id, level) are *)
(* not modelled.                                                           *)
(***************************************************************************)
EXTENDS Integers, Sequences, FiniteSets, TLC

VARIABLES
    impl,                 \* "Service" (services.py) or "UseCase" (use_cases.py)
    tree,                 \* the upstream comment tree: comment id -> parent fullname
    db,                   \* the committed store
    tx,                   \* the store as seen inside the open transaction
    pc,                   \* position of the single worker
    phase,                \* which try block runs: "first", "loop", "only"
    submission,           \* the fetched submission being processed (<<>> if none)
    idx,                  \* position in submission.comments.list()
    submission_comments,  \* self.submission_comments: bare id -> Comment instance
    error_raised,         \* local of process_subreddit
    retry_attempts,       \* local of process_subreddit
    exc,                  \* exception in flight ("" if none)
    error,                \* exception that left execute() in this pass ("" if none)
    log,                  \* last message given to log_info
    slept,                \* seconds spent in time.sleep for the current submission
    started,              \* transactions begun for the current submission
    finished,             \* "Finished processing Submission" logged for it
    passes,               \* passes (calls of execute) started so far
    subreddit,            \* position in Subreddit.objects.all()
    yielded,              \* ids the current listing has yielded
    \* format_id (a static method, called on its own)
    format_pc,            \* "idle", "formatted" (one call made), "reformatted"
    arg_id_str,           \* id_str of the first call
    arg_id_type,          \* id_type of the first call (<<>>: not given)
    formatted,            \* outcome of format_id(id_str, id_type)
    reformatted,          \* outcome of format_id applied to that result
    \* helpers.call_function_repeatedly
    sup_pc,               \* "loop" (about to call function), "stopped"
    pauze_seconds,        \* the parameter
    outcome,              \* how the last invocation of function ended
    waits,                \* the sleeps made since the last invocation began
    runs,                 \* invocations of function so far
    sup_slept,            \* seconds slept in all
    \* CheckSubmissionForInformationService.execute
    check_pc,             \* "idle", "text", "call", "parse", "count", "done", "failed"
    informations,         \* InformationToDetect.objects.all()
    info_idx,             \* position of the outer loop
    sub_idx,              \* position of the inner loop
    submission_text,      \* local of execute
    rendered,             \* every (submission, text) get_submission_text returned
    model_calls,          \* the (spec, submission) pairs given to client.messages.create
    message,              \* the response of the last model call
    detected,             \* the DetectedInformation table
    total_processed,      \* local of execute
    found_count,          \* local of execute
    check_error,          \* exception that left execute ("" if none)
    \* two runs of the collector on one database
    race_pc,              \* per run: "idle", "get", "put", "expand", "comments", "done", "failed"
    race_snapshot,        \* per run: the submission subreddit.new() yielded
    race_found,           \* per run: <<the instance Submission.objects.get returned>> or <<>>
    race_cache,           \* per run: self.submission_comments
    race_idx,             \* per run: position in submission.comments.list()
    race_inserted,        \* per run: rows inserted in the open transaction
    race_updated,         \* per run: rows updated in the open transaction
    race_error,           \* per run: exception that left execute ("" if none)
    race_clock            \* saves made so far (the wall clock of auto_now)

collectorVars ==
    <<impl, tree, db, tx, pc, phase, submission, idx, submission_comments,
      error_raised, retry_attempts, exc, error, log, slept, started,
      finished, passes, subreddit, yielded>>

formatVars == <<format_pc, arg_id_str, arg_id_type, formatted, reformatted>>

supervisorVars == <<sup_pc, pauze_seconds, outcome, waits, runs, sup_slept>>

checkVars ==
    <<check_pc, informations, info_idx, sub_idx, submission_text, rendered,
      model_calls, message, detected, total_processed, found_count, check_error>>

raceVars ==
    <<race_pc, race_snapshot, race_found, race_cache, race_idx, race_inserted,
      race_updated, race_error, race_clock>>

vars == <<collectorVars, formatVars, supervisorVars, checkVars, raceVars>>

-----------------------------------------------------------------------------
(* Bounds of the model *)

MaxPasses == 2
MaxTime == 2
MaxIdLen == 3
MaxRuns == 5

(* Program constants *)

RetryAttempts == 5
SleepSeconds == 15
DefaultPauzeSeconds == 1200
RateLimitSleep == 600
IndentWidth == 4

-----------------------------------------------------------------------------
(* Values *)

None == <<>>

IsNone(x) == Len(x) = 0

\* datetime.fromtimestamp(ts, timezone.utc)
FromTimestamp(ts) == <<ts>>

\* The comparison written a >= b
DatetimeGreaterOrEqual(a, b) == a[1] >= b[1]

\* datetime comparison a > b
DatetimeGreater(a, b) == a[1] > b[1]

\* `datetime.fromtimestamp(x.edited, timezone.utc) if x.edited else None`;
\* the upstream field is False (modelled as 0) or an epoch time.
EditedDt(edited) == IF edited # 0 THEN FromTimestamp(edited) ELSE None

NoError == ""

\* modified_dt = DateTimeField(auto_now=True): every save() of a Submission or
\* a Comment stores the time of the save.  Two saves of one row are in
\* different transactions, so the time is the transaction's ordinal.
Now == <<passes, started>>

-----------------------------------------------------------------------------
(* Identifier normalizer *)

prefix_map ==
    [Submission |-> <<"t", "3">>, Comment |-> <<"t", "1">>, User |-> <<"t", "2">>,
     Message |-> <<"t", "4">>, Subreddit |-> <<"t", "5">>, Award |-> <<"t", "6">>]

Kinds == DOMAIN prefix_map

\* The slice id_str[2:]
StripTwo(id_str) == SubSeq(id_str, 3, Len(id_str))

\* format_id(id_str): the bare id, id_str[3:]
StripId(id_str) == SubSeq(id_str, 4, Len(id_str))

\* format_id(id_str, id_type) for a recognised id_type
PrefixId(id_str, id_type) == prefix_map[id_type] \o <<"_">> \o id_str

\* `if id_type:` - None and the empty string are falsy.
Truthy(id_type) == IF IsNone(id_type) THEN FALSE ELSE id_type[1] # ""

\* format_id(id_str, id_type=None): what it returns or raises.  id_type is
\* <<>> when not given, else <<the string>>.
FormatId(id_str, id_type) ==
    IF Truthy(id_type)
    THEN IF id_type[1] \in DOMAIN prefix_map
         THEN [raised |-> NoError, value |-> PrefixId(id_str, id_type[1])]
         ELSE [raised |-> "ValueError", value |-> None]
    ELSE [raised |-> NoError, value |-> StripId(id_str)]

\* Arguments format_id is called with
IdChars == {"a", "_", "t", "3"}

IdStrings == UNION { [1 .. n -> IdChars] : n \in 0 .. MaxIdLen }

IdTypes == {None} \cup { <<k>> : k \in Kinds \cup {"", "Post", "submission"} }

-----------------------------------------------------------------------------
(* The fetch layer: what PRAW can yield *)

SubmissionId == <<"s">>
SubredditNames == <<"r1">>

MetaVersions == {"m1", "m2"}
EditedValues == 0 .. MaxTime

\* An author reference: None (deleted), or a Redditor with a name and a
\* created_utc that is missing (0) or an epoch time.
Authors == {None, <<[name |-> "u1", created_utc |-> 0]>>,
                  <<[name |-> "u1", created_utc |-> 1]>>}

\* The upstream comment trees.  "chain": comment c answers comment a.
\* "clash": two root comments, one of which has the bare id of the submission.
Trees ==
    { [k \in {<<"a">>, <<"c">>} |->
          IF k = <<"a">> THEN PrefixId(SubmissionId, "Submission")
                         ELSE PrefixId(<<"a">>, "Comment")],
      [k \in {SubmissionId, <<"c">>} |-> PrefixId(SubmissionId, "Submission")] }

CommentCreated(id) == IF id = <<"a">> THEN 1 ELSE IF id = <<"d">> THEN 3 ELSE 2

\* Upstream content is what the last edit left: the content fields of a
\* snapshot are a function of its edited time e (0: never edited).  The
\* volatile fields (score, flags) are a function of m.
Text(e) == <<"text", e>>
\* The selftext: empty (a link post), whitespace only, or text between blanks.
SelfText(e) ==
    IF e = 0 THEN <<>>
    ELSE IF e = 1 THEN <<" ", "\n">>
    ELSE <<" ", "t", ToString(e), " ">>
Flag(e) == e % 2 = 1
Label(e) == IF e = 0 THEN None ELSE <<"moderator">>

PRAWComment(id, parent_id, m, e, a) ==
    [id |-> id, parent_id |-> parent_id, author |-> a,
     body |-> Text(e) \o id, body_html |-> Text(e) \o id,
     created_utc |-> CommentCreated(id),
     score |-> m, distinguished |-> Label(e),
     edited |-> e, stickied |-> (m = "m2"), saved |-> (m = "m2"),
     is_submitter |-> Flag(e), permalink |-> Text(e)]

\* submission.comments.list() after replace_more: every order of every subset
\* of the upstream tree's comments.
CommentLists(t, m, e, a) ==
    LET ids == DOMAIN t
        mk(i) == PRAWComment(i, t[i], m, e, a)
    IN  {<<>>} \cup { <<mk(i)>> : i \in ids }
               \cup { <<mk(p[1]), mk(p[2])>> : p \in {q \in ids \X ids : q[1] # q[2]} }

PRAWSubmission(m, e, a, comments) ==
    [id |-> SubmissionId, author |-> a, title |-> Text(e), selftext |-> SelfText(e),
     url |-> Text(e), created_utc |-> 1, score |-> m, upvote_ratio |-> m,
     num_comments |-> m, over_18 |-> Flag(e), spoiler |-> Flag(e),
     stickied |-> (m = "m2"), distinguished |-> Label(e),
     edited |-> e, locked |-> (m = "m2"), saved |-> (m = "m2"),
     is_original_content |-> Flag(e), is_self |-> Flag(e), permalink |-> Text(e),
     author_flair_text |-> Label(e), link_flair_text |-> Label(e),
     link_flair_template_id |-> Label(e), comments |-> comments]

\* The snapshots subreddit.new() can yield while the upstream tree is t.
Snapshots(t) ==
    UNION { { PRAWSubmission(m, e, a, l) : l \in CommentLists(t, m, e, a) } :
            <<m, e, a>> \in MetaVersions \X EditedValues \X Authors }

\* The failure the fetch layer signals inside a transaction: the rate limit
\* (prawcore.exceptions.TooManyRequests).
FetchErrors == {"TooManyRequests"}

-----------------------------------------------------------------------------
(* The store *)

EmptyStore == [submissions |-> {}, comments |-> {}, redditors |-> {}]

Exists(table, reddit_id) == \E r \in table : r.reddit_id = reddit_id

Get(table, reddit_id) == CHOOSE r \in table : r.reddit_id = reddit_id

\* instance.save() of a row that exists
Save(table, row) == {r \in table : r.reddit_id # row.reddit_id} \cup {row}

-----------------------------------------------------------------------------
(* Author resolver *)

\* created_utc of the Redditor row: set only when the reference supplies one.
AuthorCreatedDt(author) ==
    IF author[1].created_utc # 0 THEN FromTimestamp(author[1].created_utc) ELSE None

\* Redditor.objects.update_or_create(username, defaults created_utc): the row
\* of a known username takes the created_utc observed now.
UpdateOrCreateAuthor(store, author) ==
    IF IsNone(author)
    THEN [store |-> store, instance |-> None, raised |-> NoError]
    ELSE LET row == [username |-> author[1].name, created_utc |-> AuthorCreatedDt(author)]
         IN  [store |-> [store EXCEPT !.redditors =
                            {r \in @ : r.username # row.username} \cup {row}],
              instance |-> <<row.username>>, raised |-> NoError]

\* _get_or_create_author: Redditor.objects.get_or_create(username, created_utc).
\* The lookup is on both fields; username is unique, so creating a second row
\* for a known username raises IntegrityError.
GetOrCreateAuthor(store, author) ==
    IF IsNone(author)
    THEN [store |-> store, instance |-> None, raised |-> NoError]
    ELSE LET row == [username |-> author[1].name, created_utc |-> AuthorCreatedDt(author)]
         IN  IF row \in store.redditors
             THEN [store |-> store, instance |-> <<row.username>>, raised |-> NoError]
             ELSE IF \E r \in store.redditors : r.username = row.username
             THEN [store |-> store, instance |-> None, raised |-> "IntegrityError"]
             ELSE [store |-> [store EXCEPT !.redditors = @ \cup {row}],
                   instance |-> <<row.username>>, raised |-> NoError]

-----------------------------------------------------------------------------
(* Submission reconciliation *)

\* The test that always chooses the full update
NeedsFullUpdateAlways(fetched_edited_dt, stored_edited_utc) == TRUE

\* The test without the comparison with the stored value
NeedsFullUpdateWhenEdited(fetched_edited_dt, stored_edited_utc) ==
    ~IsNone(fetched_edited_dt)

\* The edited-timestamp test of process_submission and process_submission_comments
NeedsFullUpdate(fetched_edited_dt, stored_edited_utc) ==
    IF IsNone(fetched_edited_dt) THEN FALSE
    ELSE IF IsNone(stored_edited_utc) THEN TRUE
    ELSE DatetimeGreater(fetched_edited_dt, stored_edited_utc)

SubmissionRow(s, author_instance, subreddit_instance) ==
    [reddit_id |-> s.id, author |-> author_instance, subreddit |-> subreddit_instance,
     title |-> s.title, selftext |-> s.selftext, url |-> s.url,
     created_utc |-> FromTimestamp(s.created_utc), score |-> s.score,
     upvote_ratio |-> s.upvote_ratio, num_comments |-> s.num_comments,
     over_18 |-> s.over_18, spoiler |-> s.spoiler, stickied |-> s.stickied,
     distinguished |-> s.distinguished, edited_utc |-> EditedDt(s.edited),
     locked |-> s.locked, saved |-> s.saved,
     is_original_content |-> s.is_original_content, is_self |-> s.is_self,
     permalink |-> s.permalink, author_flair_text |-> s.author_flair_text,
     link_flair_text |-> s.link_flair_text,
     link_flair_template_id |-> s.link_flair_template_id, modified_dt |-> Now]

\* _create_submission
CreateSubmission(store, s, subreddit_instance) ==
    LET au == GetOrCreateAuthor(store, s.author)
    IN  IF au.raised # NoError
        THEN [store |-> store, raised |-> au.raised]
        ELSE IF Exists(au.store.submissions, s.id)
        THEN [store |-> store, raised |-> "IntegrityError"]
        ELSE [store |-> [au.store EXCEPT !.submissions =
                             @ \cup {SubmissionRow(s, au.instance, subreddit_instance)}],
              raised |-> NoError]

\* The full update writing every column from the snapshot
SubmissionRewritten(instance, s, author_instance) ==
    SubmissionRow(s, author_instance, SubredditNames[1])

\* The assignments of _update_submission
UpdatedSubmission(instance, s, author_instance) ==
    [instance EXCEPT
        !.author = author_instance, !.title = s.title, !.selftext = s.selftext,
        !.url = s.url, !.score = s.score, !.upvote_ratio = s.upvote_ratio,
        !.num_comments = s.num_comments, !.over_18 = s.over_18,
        !.spoiler = s.spoiler, !.stickied = s.stickied,
        !.distinguished = s.distinguished, !.edited_utc = EditedDt(s.edited),
        !.locked = s.locked, !.saved = s.saved,
        !.is_original_content = s.is_original_content, !.is_self = s.is_self,
        !.permalink = s.permalink, !.author_flair_text = s.author_flair_text,
        !.link_flair_text = s.link_flair_text,
        !.link_flair_template_id = s.link_flair_template_id, !.modified_dt = Now]

\* _update_submission
UpdateSubmission(store, instance, s) ==
    LET au == GetOrCreateAuthor(store, s.author)
    IN  IF au.raised # NoError
        THEN [store |-> store, raised |-> au.raised]
        ELSE [store |-> [au.store EXCEPT !.submissions =
                             Save(@, UpdatedSubmission(instance, s, au.instance))],
              raised |-> NoError]

\* The metadata refresh also taking the title
SubmissionMetadataAndTitleUpdated(instance, s) ==
    [instance EXCEPT
        !.score = s.score, !.upvote_ratio = s.upvote_ratio,
        !.num_comments = s.num_comments, !.stickied = s.stickied,
        !.locked = s.locked, !.saved = s.saved, !.title = s.title,
        !.modified_dt = Now]

\* The assignments of _update_submission_metadata
SubmissionMetadataUpdated(instance, s) ==
    [instance EXCEPT
        !.score = s.score, !.upvote_ratio = s.upvote_ratio,
        !.num_comments = s.num_comments, !.stickied = s.stickied,
        !.locked = s.locked, !.saved = s.saved, !.modified_dt = Now]

\* _update_submission_metadata
UpdateSubmissionMetadata(store, instance, s) ==
    [store |-> [store EXCEPT !.submissions = Save(@, SubmissionMetadataUpdated(instance, s))],
     raised |-> NoError]

\* process_submission: the store it leaves, what it raised and what it logged
ProcessSubmissionResult(store, s, subreddit_instance) ==
    IF Exists(store.submissions, s.id)
    THEN LET instance == Get(store.submissions, s.id)
         IN  IF NeedsFullUpdate(EditedDt(s.edited), instance.edited_utc)
             THEN UpdateSubmission(store, instance, s)
                      @@ [log |-> "Updating existing submission due to new edits"]
             ELSE UpdateSubmissionMetadata(store, instance, s)
                      @@ [log |-> "Updating existing submission metadata"]
    ELSE CreateSubmission(store, s, subreddit_instance)
             @@ [log |-> "Creating new submission"]

\* Whether process_submission reads the author's lazily fetched attributes
\* (every path but the metadata-only one resolves the author).
SubmissionStepFetches(store, s) ==
    /\ ~IsNone(s.author)
    /\ Exists(store.submissions, s.id) =>
           NeedsFullUpdate(EditedDt(s.edited), Get(store.submissions, s.id).edited_utc)

-----------------------------------------------------------------------------
(* Comment reconciliation *)

\* The cache built from every stored comment
LoadCacheOfAll(store, submission_id) ==
    [k \in {r.reddit_id : r \in store.comments} |-> k]

\* The cache built by process_submission_comments from the stored comments
LoadCache(store, submission_id) ==
    [k \in {r.reddit_id : r \in {x \in store.comments : x.submission = submission_id}} |-> k]

\* self.submission_comments.get(key)
CacheGet(cache, key) == IF key \in DOMAIN cache THEN cache[key] ELSE None

\* The created comment not put in the cache
CacheInsertNothing(cache, key) == cache

\* self.submission_comments[comment.id] = comment_instance
CacheInsert(cache, key) == [k \in DOMAIN cache \cup {key} |-> k]

\* The stored value of distinguished: the raw value (services.py), or
\* `comment.distinguished is not None` put in the CharField (use_cases.py).
StoredDistinguished(im, distinguished) ==
    IF im = "Service" THEN distinguished
    ELSE IF IsNone(distinguished) THEN <<"False">> ELSE <<"True">>

RECURSIVE AncestorsOf(_, _, _)
AncestorsOf(comments, reddit_id, n) ==
    IF n = 0 \/ ~Exists(comments, reddit_id) THEN {}
    ELSE LET p == Get(comments, reddit_id).parent
         IN  IF IsNone(p) THEN {} ELSE {p} \cup AncestorsOf(comments, p, n - 1)

\* MPTTModel.save() of a stored node whose parent changed: a node cannot be
\* made a child of itself or of one of its descendants (InvalidMove).
InvalidMove(comments, instance, parent_comment) ==
    /\ ~IsNone(parent_comment)
    /\ parent_comment # instance.parent
    /\ \/ parent_comment = instance.reddit_id
       \/ instance.reddit_id \in AncestorsOf(comments, parent_comment, Cardinality(comments))

\* The parent lookup of _create_comment and _update_comment
ResolveParent(cache, comment) == CacheGet(cache, StripId(comment.parent_id))

\* _create_comment
CreateComment(im, store, cache, comment, submission_instance) ==
    LET au == GetOrCreateAuthor(store, comment.author)
        parent_comment == ResolveParent(cache, comment)
        row == [reddit_id |-> comment.id, submission |-> submission_instance,
                author |-> au.instance, body |-> comment.body,
                body_html |-> comment.body_html,
                created_utc |-> FromTimestamp(comment.created_utc),
                score |-> comment.score, parent |-> parent_comment,
                distinguished |-> StoredDistinguished(im, comment.distinguished),
                edited_utc |-> EditedDt(comment.edited), stickied |-> comment.stickied,
                saved |-> comment.saved, is_submitter |-> comment.is_submitter,
                permalink |-> comment.permalink, modified_dt |-> Now]
    IN  IF au.raised # NoError
        THEN [store |-> store, raised |-> au.raised]
        ELSE IF Exists(au.store.comments, comment.id)
        THEN [store |-> store, raised |-> "IntegrityError"]
        ELSE [store |-> [au.store EXCEPT !.comments = @ \cup {row}], raised |-> NoError]

\* The assignments of _update_comment
UpdatedComment(im, instance, comment, author_instance, parent_comment) ==
    [instance EXCEPT
        !.author = author_instance, !.body = comment.body,
        !.body_html = comment.body_html, !.score = comment.score,
        !.parent = parent_comment,
        !.distinguished = StoredDistinguished(im, comment.distinguished),
        !.edited_utc = EditedDt(comment.edited), !.stickied = comment.stickied,
        !.saved = comment.saved, !.is_submitter = comment.is_submitter,
        !.permalink = comment.permalink, !.modified_dt = Now]

\* _update_comment
UpdateComment(im, store, cache, instance, comment) ==
    LET au == GetOrCreateAuthor(store, comment.author)
        parent_comment == ResolveParent(cache, comment)
    IN  IF au.raised # NoError
        THEN [store |-> store, raised |-> au.raised]
        ELSE IF InvalidMove(store.comments, instance, parent_comment)
        THEN [store |-> store, raised |-> "InvalidMove"]
        ELSE [store |-> [au.store EXCEPT !.comments =
                  Save(@, UpdatedComment(im, instance, comment, au.instance, parent_comment))],
              raised |-> NoError]

\* The metadata refresh also taking the body
CommentMetadataAndBodyUpdated(instance, comment) ==
    [instance EXCEPT
        !.score = comment.score, !.stickied = comment.stickied, !.saved = comment.saved,
        !.body = comment.body, !.modified_dt = Now]

\* The assignments of _update_comment_metadata
CommentMetadataUpdated(instance, comment) ==
    [instance EXCEPT
        !.score = comment.score, !.stickied = comment.stickied, !.saved = comment.saved,
        !.modified_dt = Now]

\* _update_comment_metadata
UpdateCommentMetadata(store, instance, comment) ==
    [store |-> [store EXCEPT !.comments = Save(@, CommentMetadataUpdated(instance, comment))],
     raised |-> NoError]

\* One iteration of the loop of process_submission_comments: the store and
\* the cache it leaves, what it raised and what it logged.
ProcessCommentResult(im, store, cache, comment, submission_instance) ==
    IF comment.id \in DOMAIN cache
    THEN LET comment_instance == Get(store.comments, cache[comment.id])
         IN  IF NeedsFullUpdate(EditedDt(comment.edited), comment_instance.edited_utc)
             THEN UpdateComment(im, store, cache, comment_instance, comment)
                      @@ [cache |-> cache, log |-> "Updating existing comment due to new edits"]
             ELSE UpdateCommentMetadata(store, comment_instance, comment)
                      @@ [cache |-> cache, log |-> "Updating existing comment metadata"]
    ELSE CreateComment(im, store, cache, comment, submission_instance)
             @@ [cache |-> CacheInsert(cache, comment.id), log |-> "Creating new comment"]

\* Whether the iteration reads the author's lazily fetched attributes
CommentStepFetches(store, cache, comment) ==
    /\ ~IsNone(comment.author)
    /\ comment.id \in DOMAIN cache =>
           NeedsFullUpdate(EditedDt(comment.edited),
                           Get(store.comments, cache[comment.id]).edited_utc)

-----------------------------------------------------------------------------
(* The worker: execute, process_subreddit and the transaction per submission *)

\* The name bound
AttemptsBound == TRUE

\* The name `attempts` read by the log line that precedes time.sleep is
\* bound nowhere (no local, no global): evaluating the f-string raises
\* NameError.
AttemptsIsBound == FALSE

\* No transaction: the writes made before the exception stay.
RollbackNothing(committed, working) == working

\* Leaving `with transaction.atomic()` by an exception: the store is the
\* committed one again.
Rollback(committed, working) == committed

\* The writes of the transaction dropped at its end
CommitNothing(committed, working) == committed

\* Leaving `with transaction.atomic()` normally: the working store is committed.
Commit(committed, working) == working

EmptyCache == [k \in {} |-> k]

InitFor(im) ==
    /\ impl = im
    /\ tree \in Trees
    /\ db = EmptyStore
    /\ tx = EmptyStore
    /\ pc = "idle"
    /\ phase = "none"
    /\ submission = None
    /\ idx = 0
    /\ submission_comments = EmptyCache
    /\ error_raised = FALSE
    /\ retry_attempts = 0
    /\ exc = NoError
    /\ error = NoError
    /\ log = ""
    /\ slept = 0
    /\ started = 0
    /\ finished = 0
    /\ passes = 0
    /\ subreddit = 0
    /\ yielded = {}

\* A run of execute() begins (the command, the celery task or the supervisor).
StartPass ==
    /\ UNCHANGED <<formatVars, supervisorVars, checkVars, raceVars>>
    /\ pc = "idle"
    /\ passes < MaxPasses
    /\ passes' = passes + 1
    /\ pc' = "subreddits"
    /\ subreddit' = 1
    /\ error' = NoError
    /\ exc' = NoError
    /\ submission' = None
    /\ phase' = "none"
    /\ idx' = 0
    /\ log' = ""
    /\ slept' = 0
    /\ started' = 0
    /\ finished' = 0
    /\ yielded' = {}
    /\ UNCHANGED <<impl, tree, db, tx, submission_comments, error_raised, retry_attempts>>

\* execute: the next subreddit; process_subreddit empties the cache.
NextSubreddit ==
    /\ UNCHANGED <<formatVars, supervisorVars, checkVars, raceVars>>
    /\ pc = "subreddits"
    /\ subreddit <= Len(SubredditNames)
    /\ log' = "Processing Subreddit"
    /\ submission_comments' = EmptyCache
    /\ yielded' = {}
    /\ pc' = "listing"
    /\ UNCHANGED <<impl, tree, db, tx, phase, submission, idx, error_raised,
                   retry_attempts, exc, error, slept, started, finished, passes,
                   subreddit>>

\* execute returns after the last subreddit.
ExecuteReturns ==
    /\ UNCHANGED <<formatVars, supervisorVars, checkVars, raceVars>>
    /\ pc = "subreddits"
    /\ subreddit > Len(SubredditNames)
    /\ pc' = "idle"
    /\ UNCHANGED <<impl, tree, db, tx, phase, submission, idx, submission_comments,
                   error_raised, retry_attempts, exc, error, log, slept, started,
                   finished, passes, subreddit, yielded>>

\* subreddit.new() yields a submission; the first transaction is entered.
NextSubmission ==
    /\ UNCHANGED <<formatVars, supervisorVars, checkVars, raceVars>>
    /\ pc = "listing"
    /\ \E s \in Snapshots(tree) :
          /\ s.id \notin yielded
          /\ submission' = s
          /\ yielded' = yielded \cup {s.id}
    /\ log' = "Processing Submission"
    /\ phase' = IF impl = "Service" THEN "first" ELSE "only"
    /\ tx' = db
    /\ started' = 1
    /\ finished' = 0
    /\ slept' = 0
    /\ idx' = 0
    /\ pc' = "process_submission"
    /\ UNCHANGED <<impl, tree, db, submission_comments, error_raised, retry_attempts,
                   exc, error, passes, subreddit>>

\* subreddit.new() is exhausted; process_subreddit returns.
ListingEnds ==
    /\ UNCHANGED <<formatVars, supervisorVars, checkVars, raceVars>>
    /\ pc = "listing"
    /\ pc' = "subreddits"
    /\ subreddit' = subreddit + 1
    /\ submission' = None
    /\ phase' = "none"
    /\ idx' = 0
    /\ error_raised' = FALSE
    /\ retry_attempts' = 0
    /\ slept' = 0
    /\ started' = 0
    /\ finished' = 0
    /\ UNCHANGED <<impl, tree, db, tx, submission_comments, exc, error, log, passes,
                   yielded>>

\* process_submission
ProcessSubmission ==
    /\ UNCHANGED <<formatVars, supervisorVars, checkVars, raceVars>>
    /\ pc = "process_submission"
    /\ LET r == ProcessSubmissionResult(tx, submission, SubredditNames[subreddit])
       IN  /\ log' = r.log
           /\ IF r.raised = NoError
              THEN /\ tx' = r.store
                   /\ pc' = "expand"
                   /\ exc' = NoError
              ELSE /\ tx' = tx
                   /\ pc' = "raising"
                   /\ exc' = r.raised
    /\ UNCHANGED <<impl, tree, db, phase, submission, idx, submission_comments,
                   error_raised, retry_attempts, error, slept, started, finished,
                   passes, subreddit, yielded>>

\* process_submission_comments going to its loop with the cache as it is
ExpandCommentsKeepingCache ==
    /\ UNCHANGED <<formatVars, supervisorVars, checkVars, raceVars>>
    /\ pc = "expand"
    /\ idx' = 1
    /\ pc' = "comments"
    /\ UNCHANGED <<impl, tree, db, tx, phase, submission, submission_comments,
                   error_raised, retry_attempts, exc, error, log, slept, started,
                   finished, passes, subreddit, yielded>>

\* process_submission_comments up to its loop: replace_more and the cache load
ExpandComments ==
    /\ UNCHANGED <<formatVars, supervisorVars, checkVars, raceVars>>
    /\ pc = "expand"
    /\ submission_comments' = LoadCache(tx, submission.id)
    /\ idx' = 1
    /\ pc' = "comments"
    /\ UNCHANGED <<impl, tree, db, tx, phase, submission, error_raised, retry_attempts,
                   exc, error, log, slept, started, finished, passes, subreddit, yielded>>

\* One iteration of the loop of process_submission_comments
ProcessComment ==
    /\ UNCHANGED <<formatVars, supervisorVars, checkVars, raceVars>>
    /\ pc = "comments"
    /\ idx <= Len(submission.comments)
    /\ LET r == ProcessCommentResult(impl, tx, submission_comments,
                                     submission.comments[idx], submission.id)
       IN  /\ log' = r.log
           /\ IF r.raised = NoError
              THEN /\ tx' = r.store
                   /\ submission_comments' = r.cache
                   /\ idx' = idx + 1
                   /\ pc' = "comments"
                   /\ exc' = NoError
              ELSE /\ tx' = tx
                   /\ submission_comments' = submission_comments
                   /\ idx' = idx
                   /\ pc' = "raising"
                   /\ exc' = r.raised
    /\ UNCHANGED <<impl, tree, db, phase, submission, error_raised, retry_attempts,
                   error, slept, started, finished, passes, subreddit, yielded>>

\* Whether the step about to run talks to the upstream API
AtFetchPoint ==
    \/ pc = "expand"
    \/ pc = "process_submission" /\ SubmissionStepFetches(tx, submission)
    \/ /\ pc = "comments"
       /\ idx <= Len(submission.comments)
       /\ CommentStepFetches(tx, submission_comments, submission.comments[idx])

\* The upstream API fails inside the transaction.
FetchRaises ==
    /\ UNCHANGED <<formatVars, supervisorVars, checkVars, raceVars>>
    /\ AtFetchPoint
    /\ \E e \in FetchErrors : exc' = e
    /\ pc' = "raising"
    /\ UNCHANGED <<impl, tree, db, tx, phase, submission, idx, submission_comments,
                   error_raised, retry_attempts, error, log, slept, started, finished,
                   passes, subreddit, yielded>>

\* The loop is over: "Finished processing Submission", the transaction commits,
\* and control goes on: from the first try block to the while loop (services.py),
\* from the while loop (break) or the only block (use_cases.py) to the listing.
FinishSubmission ==
    /\ UNCHANGED <<formatVars, supervisorVars, checkVars, raceVars>>
    /\ pc = "comments"
    /\ idx > Len(submission.comments)
    /\ log' = "Finished processing Submission"
    /\ finished' = finished + 1
    /\ db' = Commit(db, tx)
    /\ tx' = db'
    /\ IF phase = "first"
       THEN /\ error_raised' = FALSE
            /\ retry_attempts' = RetryAttempts
            /\ phase' = "loop"
            /\ started' = started + 1
            /\ pc' = "process_submission"
       ELSE /\ pc' = "listing"
            /\ UNCHANGED <<error_raised, retry_attempts, phase, started>>
    /\ idx' = 0
    /\ UNCHANGED <<impl, tree, submission, submission_comments, exc, error, slept,
                   passes, subreddit, yielded>>

\* A clause that takes every exception
IsAnyException(raised) == TRUE

\* `except prawcore.exceptions.TooManyRequests`: whether the clause takes the
\* exception
IsRateLimit(raised) == raised = "TooManyRequests"

\* An exception leaves the transaction: rollback, then the except clauses.
LeaveAtomicRaising ==
    /\ UNCHANGED <<formatVars, supervisorVars, checkVars, raceVars>>
    /\ pc = "raising"
    /\ db' = Rollback(db, tx)
    /\ tx' = db'
    /\ idx' = IF IsRateLimit(exc) /\ phase = "first" THEN 0 ELSE idx
    /\ IF IsRateLimit(exc) /\ phase = "first"
       THEN \* except TooManyRequests: error_raised = True; then the loop's set-up
            /\ error_raised' = FALSE
            /\ retry_attempts' = RetryAttempts
            /\ phase' = "loop"
            /\ started' = started + 1
            /\ pc' = "process_submission"
            /\ exc' = NoError
            /\ UNCHANGED <<error, log, slept>>
       ELSE IF IsRateLimit(exc) /\ phase = "loop"
       THEN IF error_raised /\ retry_attempts = 0
            THEN \* raise e
                 /\ error' = exc
                 /\ pc' = "idle"
                 /\ exc' = NoError
                 /\ log' = "TooManyRequests raised during process_submission_comments"
                 /\ UNCHANGED <<error_raised, retry_attempts, phase, started, slept>>
            ELSE /\ retry_attempts' = IF ~error_raised THEN RetryAttempts
                                      ELSE retry_attempts - 1
                 /\ IF AttemptsIsBound
                    THEN \* time.sleep(15), then the next iteration of the loop
                         /\ log' = "Retry started"
                         /\ slept' = slept + SleepSeconds
                         /\ started' = started + 1
                         /\ pc' = "process_submission"
                         /\ exc' = NoError
                         /\ UNCHANGED <<error, error_raised, phase>>
                    ELSE \* the log line raises NameError inside the handler
                         /\ log' = "TooManyRequests raised during process_submission_comments"
                         /\ error' = "NameError"
                         /\ pc' = "idle"
                         /\ exc' = NoError
                         /\ UNCHANGED <<error_raised, phase, started, slept>>
       ELSE \* no except clause matches: the exception leaves execute()
            /\ error' = exc
            /\ pc' = "idle"
            /\ exc' = NoError
            /\ UNCHANGED <<error_raised, retry_attempts, phase, started, log, slept>>
    /\ UNCHANGED <<impl, tree, submission, submission_comments, finished, passes,
                   subreddit, yielded>>

Next ==
    \/ StartPass
    \/ NextSubreddit
    \/ ExecuteReturns
    \/ NextSubmission
    \/ ListingEnds
    \/ ProcessSubmission
    \/ ExpandComments
    \/ ProcessComment
    \/ FetchRaises
    \/ FinishSubmission
    \/ LeaveAtomicRaising

NoCall == [raised |-> NoError, value |-> None]

\* format_id has not been called.
FormatIdle ==
    /\ format_pc = "idle"
    /\ arg_id_str = <<>>
    /\ arg_id_type = None
    /\ formatted = NoCall
    /\ reformatted = NoCall

\* call_function_repeatedly is not running.
SupervisorIdle ==
    /\ sup_pc = "stopped"
    /\ pauze_seconds = DefaultPauzeSeconds
    /\ outcome = "none"
    /\ waits = <<>>
    /\ runs = 0
    /\ sup_slept = 0

\* CheckSubmissionForInformationService.execute is not running.
CheckIdle ==
    /\ check_pc = "idle"
    /\ informations = <<>>
    /\ info_idx = 0
    /\ sub_idx = 0
    /\ submission_text = <<>>
    /\ rendered = {}
    /\ model_calls = <<>>
    /\ message = "none"
    /\ detected = {}
    /\ total_processed = 0
    /\ found_count = 0
    /\ check_error = NoError

Runners == {1, 2}

NoWrites == [submissions |-> {}, comments |-> {}]

\* No second run of the collector is under way.
RaceIdle ==
    /\ race_pc = [r \in Runners |-> "idle"]
    /\ race_snapshot = [r \in Runners |-> None]
    /\ race_found = [r \in Runners |-> None]
    /\ race_cache = [r \in Runners |-> EmptyCache]
    /\ race_idx = [r \in Runners |-> 0]
    /\ race_inserted = [r \in Runners |-> NoWrites]
    /\ race_updated = [r \in Runners |-> NoWrites]
    /\ race_error = [r \in Runners |-> NoError]
    /\ race_clock = 0

\* The worker runs CollectSubmissionsService (collect_submissions, the task).
Init == InitFor("Service") /\ FormatIdle /\ SupervisorIdle /\ CheckIdle /\ RaceIdle

Spec == Init /\ [][Next]_vars


\* The worker runs CollectThreadsUseCase (collect_threads).
InitUseCase == InitFor("UseCase") /\ FormatIdle /\ SupervisorIdle /\ CheckIdle /\ RaceIdle

SpecUseCase == InitUseCase /\ [][Next]_vars

-----------------------------------------------------------------------------
(* format_id called on its own *)

\* format_id(id_str, id_type)
FormatIdCall ==
    /\ format_pc = "idle"
    /\ \E s \in IdStrings, t \in IdTypes :
          /\ arg_id_str' = s
          /\ arg_id_type' = t
          /\ formatted' = FormatId(s, t)
    /\ format_pc' = "formatted"
    /\ UNCHANGED <<reformatted, collectorVars, supervisorVars, checkVars, raceVars>>

\* format_id(result): the result of the first call given back without arg_id_type
FormatIdOfResult ==
    /\ format_pc = "formatted"
    /\ formatted.raised = NoError
    /\ reformatted' = FormatId(formatted.value, None)
    /\ format_pc' = "reformatted"
    /\ UNCHANGED <<arg_id_str, arg_id_type, formatted, collectorVars, supervisorVars, checkVars, raceVars>>

NextFormatId == FormatIdCall \/ FormatIdOfResult

InitFormatId == InitFor("Service") /\ FormatIdle /\ SupervisorIdle /\ CheckIdle /\ RaceIdle

SpecFormatId == InitFormatId /\ [][NextFormatId]_vars

-----------------------------------------------------------------------------
(* helpers.call_function_repeatedly(function, pauze_seconds) *)

PauzeSecondsValues == {DefaultPauzeSeconds, 0, 60}

\* function() is called (the top of `while True`).
CallFunction ==
    /\ sup_pc = "loop"
    /\ runs < MaxRuns
    /\ runs' = runs + 1
    /\ waits' = <<>>
    /\ sup_pc' = "function"
    /\ UNCHANGED <<pauze_seconds, outcome, sup_slept, collectorVars, formatVars, checkVars, raceVars>>

\* function() returns: the prints, then time.sleep(pauze_seconds).
FunctionReturns ==
    /\ sup_pc = "function"
    /\ outcome' = "returned"
    /\ waits' = Append(waits, pauze_seconds)
    /\ sup_slept' = sup_slept + pauze_seconds
    /\ sup_pc' = "loop"
    /\ UNCHANGED <<pauze_seconds, runs, collectorVars, formatVars, checkVars, raceVars>>

\* The rate-limit handler without its `continue`: both sleeps are made.
RateLimitWithoutContinue ==
    /\ sup_pc = "function"
    /\ outcome' = "TooManyRequests"
    /\ waits' = waits \o <<RateLimitSleep, pauze_seconds>>
    /\ sup_slept' = sup_slept + RateLimitSleep + pauze_seconds
    /\ sup_pc' = "loop"
    /\ UNCHANGED <<pauze_seconds, runs, collectorVars, formatVars, checkVars, raceVars>>

\* function() raises TooManyRequests: time.sleep(600); continue.
FunctionRaisesTooManyRequests ==
    /\ sup_pc = "function"
    /\ outcome' = "TooManyRequests"
    /\ waits' = Append(waits, RateLimitSleep)
    /\ sup_slept' = sup_slept + RateLimitSleep
    /\ sup_pc' = "loop"
    /\ UNCHANGED <<pauze_seconds, runs, collectorVars, formatVars, checkVars, raceVars>>

\* Another Exception is not caught: it leaves the loop.
ExceptionEscapes ==
    /\ sup_pc = "function"
    /\ outcome' = "Exception"
    /\ sup_pc' = "stopped"
    /\ UNCHANGED <<pauze_seconds, waits, runs, sup_slept, collectorVars, formatVars,
                   checkVars, raceVars>>

\* function() raises another Exception: the traceback, then
\* time.sleep(pauze_seconds).
FunctionRaisesException ==
    /\ sup_pc = "function"
    /\ outcome' = "Exception"
    /\ waits' = Append(waits, pauze_seconds)
    /\ sup_slept' = sup_slept + pauze_seconds
    /\ sup_pc' = "loop"
    /\ UNCHANGED <<pauze_seconds, runs, collectorVars, formatVars, checkVars, raceVars>>

\* function() raises a BaseException that is no Exception (KeyboardInterrupt,
\* SystemExit): no except clause matches, the loop is left.
FunctionRaisesBaseException ==
    /\ sup_pc = "function"
    /\ outcome' = "BaseException"
    /\ sup_pc' = "stopped"
    /\ UNCHANGED <<pauze_seconds, waits, runs, sup_slept, collectorVars, formatVars,
                   checkVars, raceVars>>

NextSupervisor ==
    \/ CallFunction
    \/ FunctionReturns
    \/ FunctionRaisesTooManyRequests
    \/ FunctionRaisesException
    \/ FunctionRaisesBaseException

InitSupervisor ==
    /\ InitFor("Service") /\ FormatIdle /\ CheckIdle /\ RaceIdle
    /\ sup_pc = "loop"
    /\ pauze_seconds \in PauzeSecondsValues
    /\ outcome = "none"
    /\ waits = <<>>
    /\ runs = 0
    /\ sup_slept = 0

SpecSupervisor == InitSupervisor /\ [][NextSupervisor]_vars

\* function() ends and time.sleep ends: the step of the loop that is due is
\* eventually taken.
SpecSupervisorLive == SpecSupervisor /\ WF_vars(NextSupervisor)

-----------------------------------------------------------------------------
(* Claims *)

RateLimitLog == "TooManyRequests raised during process_submission_comments"

\* C1 (as claimed): when the retry controller gives up on a submission whose
\* attempts keep raising TooManyRequests, it has retried 5 times, slept
\* 5 x 15 seconds in total, and the exception that propagates is
\* TooManyRequests.
C1_RetryBound ==
    (pc = "idle" /\ error # NoError /\ log = RateLimitLog) =>
        /\ error = "TooManyRequests"
        /\ slept = RetryAttempts * SleepSeconds
        /\ started >= RetryAttempts + 1

\* C2 (as claimed): a submission whose reconciliation met no error has been
\* reconciled exactly once when the listing moves on.
C2_ExactlyOnce ==
    (pc = "listing" /\ phase # "none" /\ started = finished) => finished = 1

\* C3: the committed store changes only when a complete attempt commits, and
\* then to that attempt's result; an attempt that raises leaves the committed
\* store as it was before the attempt.
C3_Atomicity ==
    [][ /\ (pc = "raising" => db' = db)
        /\ (db' # db => /\ pc = "comments"
                        /\ idx > Len(submission.comments)
                        /\ db' = tx) ]_vars

\* An attempt failed on its second comment after creating the first one, and
\* the committed store does not hold the first one.
C3_Witness ==
    /\ pc = "idle"
    /\ error # NoError
    /\ idx = 2
    /\ tx = db
    /\ ~Exists(db.comments, submission.comments[1].id)

\* The step taken is process_submission (it ended, normally or by raising).
SubmissionStepTaken ==
    /\ pc = "process_submission"
    /\ pc' = "expand" \/ (pc' = "raising" /\ exc' \notin FetchErrors)

\* The step taken is one iteration of the comment loop.
CommentStepTaken ==
    /\ pc = "comments"
    /\ idx <= Len(submission.comments)
    /\ idx' = idx + 1 \/ (pc' = "raising" /\ exc' \notin FetchErrors)

\* The rule as the specification words it, on the raw fetched value T1
\* (0: absent) and the stored value T0.
EditedRule(T1, T0) ==
    IF T1 = 0 THEN FALSE ELSE IF T0 = None THEN TRUE ELSE T1 > T0[1]

\* C4: for a stored submission or comment, the full update is taken iff the
\* fetched edited time is present and the stored one is absent or older;
\* otherwise the metadata-only refresh is taken and edited_utc stays.
C4_EditedRule ==
    [][ /\ (SubmissionStepTaken /\ Exists(tx.submissions, submission.id)) =>
              LET T0 == Get(tx.submissions, submission.id).edited_utc
                  full == EditedRule(submission.edited, T0)
              IN  /\ full <=> log' = "Updating existing submission due to new edits"
                  /\ ~full <=> log' = "Updating existing submission metadata"
                  /\ pc' = "expand" =>
                        Get(tx'.submissions, submission.id).edited_utc =
                            IF full THEN FromTimestamp(submission.edited) ELSE T0
        /\ (CommentStepTaken /\ submission.comments[idx].id \in DOMAIN submission_comments) =>
              LET comment == submission.comments[idx]
                  T0 == Get(tx.comments, comment.id).edited_utc
                  full == EditedRule(comment.edited, T0)
              IN  /\ full <=> log' = "Updating existing comment due to new edits"
                  /\ ~full <=> log' = "Updating existing comment metadata"
                  /\ idx' = idx + 1 =>
                        Get(tx'.comments, comment.id).edited_utc =
                            IF full THEN FromTimestamp(comment.edited) ELSE T0 ]_vars

\* A stored comment met a fetched edited time older than the stored one and
\* was refreshed by the metadata-only path.
C4_Witness ==
    /\ pc = "comments"
    /\ idx = 2
    /\ log = "Updating existing comment metadata"
    /\ submission.comments[1].edited # 0
    /\ LET T0 == Get(tx.comments, submission.comments[1].id).edited_utc
       IN  ~IsNone(T0) /\ T0[1] > submission.comments[1].edited

\* A store without the modified_dt column of its submissions and comments
WithoutModifiedDt(store) ==
    LET strip(r) == [f \in DOMAIN r \ {"modified_dt"} |-> r[f]]
    IN  [submissions |-> {strip(r) : r \in store.submissions},
         comments |-> {strip(r) : r \in store.comments},
         redditors |-> store.redditors]

\* C5 (as claimed): once a snapshot has been reconciled and committed,
\* reconciling the same snapshot again leaves every stored field of every row
\* as it was, at every step.
C5_EveryFieldEqual ==
    [][ (phase = "loop" /\ finished = 1) => (tx' = db /\ db' = db) ]_vars

\* C5: once a snapshot has been reconciled and committed, reconciling the same
\* snapshot again creates no row, changes no field other than modified_dt
\* (which takes the time of the second save), at no step, and does not fail
\* on the store.
C5_Idempotent ==
    [][ (phase = "loop" /\ finished = 1) =>
            /\ pc = "raising" => exc \in FetchErrors
            /\ WithoutModifiedDt(tx') = WithoutModifiedDt(db)
            /\ WithoutModifiedDt(db') = WithoutModifiedDt(db) ]_vars

\* The second reconciliation of a snapshot with two comments committed, in a
\* pass that started from a store another pass had filled.
C5_Witness ==
    /\ pc = "listing"
    /\ finished = 2
    /\ passes = 2
    /\ Cardinality(db.comments) = 2
    /\ Len(submission.comments) = 2
    /\ \A r \in db.submissions \cup db.comments : r.modified_dt = <<2, 2>>

IsCommentRef(parent_id) == SubSeq(parent_id, 1, 3) = prefix_map.Comment \o <<"_">>

\* C6 (as claimed): creating a comment whose parent reference names a comment
\* that is not in the cache raises and stores nothing.
C6_OrderingViolation ==
    [][ ( /\ CommentStepTaken
          /\ submission.comments[idx].id \notin DOMAIN submission_comments
          /\ IsCommentRef(submission.comments[idx].parent_id)
          /\ StripId(submission.comments[idx].parent_id) \notin DOMAIN submission_comments )
        => (pc' = "raising" /\ tx' = tx) ]_vars

\* The parent the upstream tree gives a comment (None for a root comment)
UpstreamParent(reddit_id) ==
    IF IsCommentRef(tree[reddit_id]) THEN StripId(tree[reddit_id]) ELSE None

\* C7 (as claimed): after a completed reconciliation every stored comment of the
\* submission has the parent its upstream parent reference names.
C7_TreeConsistent ==
    (pc = "listing" /\ phase # "none" /\ finished >= 1) =>
        \A r \in db.comments :
            r.submission = submission.id => r.parent = UpstreamParent(r.reddit_id)

\* C8: a comment created after its parent, itself created earlier in the same
\* pass, is stored with that parent.
C8_SameBatchParent ==
    [][ ( /\ CommentStepTaken
          /\ idx' = idx + 1
          /\ submission.comments[idx].id \notin DOMAIN submission_comments
          /\ IsCommentRef(submission.comments[idx].parent_id)
          /\ ~Exists(db.comments, StripId(submission.comments[idx].parent_id))
          /\ \E j \in 1 .. (idx - 1) :
                submission.comments[j].id = StripId(submission.comments[idx].parent_id) )
        => Get(tx'.comments, submission.comments[idx].id).parent =
               StripId(submission.comments[idx].parent_id) ]_vars

\* Comment c was created as the child of comment a, created just before it.
C8_Witness ==
    /\ pc = "comments"
    /\ idx = 3
    /\ log = "Creating new comment"
    /\ ~Exists(db.comments, <<"a">>)
    /\ \E r \in tx.comments : r.reddit_id = <<"c">> /\ r.parent = <<"a">>

\* C9 (as claimed): a comment whose parent reference is the submission's
\* fullname is created with a null parent, whatever the cache holds.
C9_RootNullParent ==
    [][ ( /\ CommentStepTaken
          /\ idx' = idx + 1
          /\ submission.comments[idx].id \notin DOMAIN submission_comments
          /\ submission.comments[idx].parent_id = PrefixId(submission.id, "Submission") )
        => IsNone(Get(tx'.comments, submission.comments[idx].id).parent) ]_vars

SubmissionMetadataFields ==
    {"score", "upvote_ratio", "num_comments", "stickied", "locked", "saved"}

SubmissionContentFields ==
    {"title", "selftext", "url", "author", "edited_utc", "distinguished", "over_18",
     "spoiler", "author_flair_text", "link_flair_text", "link_flair_template_id",
     "permalink", "reddit_id", "subreddit", "created_utc", "is_original_content",
     "is_self"}

\* C10: the metadata-only refresh of a stored submission gives score,
\* upvote_ratio, num_comments, stickied, locked and saved the fetched values
\* and changes no other field of the row, no other row and no other table.
C10_SubmissionMetadataFrame ==
    [][ (SubmissionStepTaken /\ log' = "Updating existing submission metadata") =>
            LET old == Get(tx.submissions, submission.id)
                new == Get(tx'.submissions, submission.id)
            IN  /\ \A f \in SubmissionMetadataFields : new[f] = submission[f]
                /\ \A f \in SubmissionContentFields : new[f] = old[f]
                /\ tx'.submissions \ {new} = tx.submissions \ {old}
                /\ tx'.comments = tx.comments
                /\ tx'.redditors = tx.redditors ]_vars

\* The metadata-only refresh was taken for a stored submission whose fetched
\* snapshot differs from the row in title and in author.
C10_Witness ==
    /\ pc = "expand"
    /\ log = "Updating existing submission metadata"
    /\ LET row == Get(tx.submissions, submission.id)
       IN  /\ row.title # submission.title
           /\ row.permalink # submission.permalink
           /\ IsNone(row.author) /\ ~IsNone(submission.author)
           /\ row.score = submission.score

CommentMetadataFields == {"score", "stickied", "saved"}

CommentContentFields ==
    {"body", "body_html", "author", "parent", "edited_utc", "distinguished",
     "is_submitter", "permalink", "submission", "created_utc", "reddit_id"}

\* C11: the metadata-only refresh of a comment found in the cache gives score,
\* stickied and saved the fetched values and changes no other listed field of
\* the row, no other row and no other table.
C11_CommentMetadataFrame ==
    [][ (CommentStepTaken /\ log' = "Updating existing comment metadata") =>
            LET comment == submission.comments[idx]
                old == Get(tx.comments, comment.id)
                new == Get(tx'.comments, comment.id)
            IN  /\ \A f \in CommentMetadataFields : new[f] = comment[f]
                /\ \A f \in CommentContentFields : new[f] = old[f]
                /\ tx'.comments \ {new} = tx.comments \ {old}
                /\ tx'.submissions = tx.submissions
                /\ tx'.redditors = tx.redditors ]_vars

\* The metadata-only refresh was taken for a stored comment whose fetched
\* snapshot differs from the row in body, in author and in score.
C11_Witness ==
    /\ pc = "comments"
    /\ idx = 2
    /\ log = "Updating existing comment metadata"
    /\ LET row == Get(tx.comments, submission.comments[1].id)
       IN  /\ row.body # submission.comments[1].body
           /\ IsNone(row.author) /\ ~IsNone(submission.comments[1].author)
           /\ row.score = submission.comments[1].score
           /\ row.modified_dt = Now

\* C12 (as claimed): when the rate-limit handler stops retrying a submission,
\* the pass goes on with the listing: the submissions and the subreddits that
\* follow are still reconciled.
C12_ExhaustionIsLocal ==
    [][ ( /\ pc = "raising"
          /\ exc = "TooManyRequests"
          /\ phase = "loop"
          /\ pc' # "process_submission" ) => pc' = "listing" ]_vars

\* C13 (as claimed): resolving an author whose username has a Redditor row
\* returns that row, raises nothing and leaves one row for the username,
\* whatever creation timestamp the reference carries now.
C13_AuthorStable ==
    \A author \in Authors \ {None} :
        (\E r \in tx.redditors : r.username = author[1].name) =>
            LET res == GetOrCreateAuthor(tx, author)
            IN  /\ res.raised = NoError
                /\ res.instance = <<author[1].name>>
                /\ Cardinality({r \in res.store.redditors :
                                    r.username = author[1].name}) = 1

\* C14: no step changes or removes a committed Redditor row, inside a
\* transaction no step but the rollback removes a row, and a username never
\* has two rows.
C14_RedditorImmutable ==
    [][ /\ db.redditors \subseteq db'.redditors
        /\ pc # "raising" => tx.redditors \subseteq tx'.redditors
        /\ \A r1, r2 \in tx'.redditors : r1.username = r2.username => r1 = r2 ]_vars

\* A pass observed the stored author with another creation timestamp, and
\* the committed row has the creation timestamp it was created with.
C14_Witness ==
    /\ pc = "idle"
    /\ error = "IntegrityError"
    /\ ~IsNone(submission.author)
    /\ \E r \in db.redditors :
          /\ r.username = submission.author[1].name
          /\ r.created_utc # AuthorCreatedDt(submission.author)

-----------------------------------------------------------------------------
(* CheckSubmissionForInformationService: the text assembler and execute *)

\* `x.author.username if x.author else '[deleted]'`
AuthorName(author) == IF IsNone(author) THEN "[deleted]" ELSE author[1]

\* The sequences that hold every row of a set once, in non-decreasing
\* created_utc: what ORDER BY created_utc can return (the order of rows with
\* equal created_utc is not specified by the database).
OrdersByCreated(rows) ==
    { o \in [1 .. Cardinality(rows) -> rows] :
        /\ \A i, j \in DOMAIN o : i # j => o[i] # o[j]
        /\ \A i, j \in DOMAIN o : i < j => o[i].created_utc[1] <= o[j].created_utc[1] }

\* comment.get_children(): the children in tree order (lft), a stored order
\* that order_insertion_by keeps sorted by created_utc.
GetChildren(store, comment) ==
    CHOOSE o \in OrdersByCreated({r \in store.comments : r.parent = comment.reddit_id}) : TRUE

\* The indentation that is as many spaces as the depth
IndentOneSpace(depth) == depth

\* indent = "    " * depth: the number of spaces
Indent(depth) == IndentWidth * depth

Newline == [kind |-> "newline"]

RECURSIVE format_comment(_, _, _)
RECURSIVE FormatChildren(_, _, _, _)
\* The loop `for child in comment.get_children()` of format_comment
FormatChildren(store, children, i, depth) ==
    IF i > Len(children) THEN <<>>
    ELSE <<Newline>> \o format_comment(store, children[i], depth)
                    \o FormatChildren(store, children, i + 1, depth)

\* format_comment(comment, depth): the text as a sequence of pieces; the piece
\* of a comment is "{indent}u/{author}:\n{indent}{body}\n".
format_comment(store, comment, depth) ==
    <<[kind |-> "comment", indent |-> Indent(depth),
       author |-> AuthorName(comment.author), body |-> comment.body]>>
        \o FormatChildren(store, GetChildren(store, comment), 1, depth + 1)

RECURSIVE FormatRoots(_, _, _)
\* The loop over root_comments of get_submission_text
FormatRoots(store, root_comments, i) ==
    IF i > Len(root_comments) THEN <<>>
    ELSE format_comment(store, root_comments[i], 0) \o <<Newline>>
             \o FormatRoots(store, root_comments, i + 1)

\* The root comments of every submission
RootCommentsOfAll(store, submission_row) ==
    OrdersByCreated({r \in store.comments : IsNone(r.parent)})

\* submission.comments.filter(parent=None).order_by('created_utc'): the results
\* the query can give
RootComments(store, submission_row) ==
    OrdersByCreated({r \in store.comments :
                        r.submission = submission_row.reddit_id /\ IsNone(r.parent)})

Whitespace == {" ", "\n", "\t"}

\* The text kept whole
NoStrip(text) == text

RECURSIVE Strip(_)
\* str.strip(): the text without its leading and trailing whitespace
Strip(text) ==
    IF Len(text) = 0 THEN text
    ELSE IF text[1] \in Whitespace THEN Strip(Tail(text))
    ELSE IF text[Len(text)] \in Whitespace THEN Strip(SubSeq(text, 1, Len(text) - 1))
    ELSE text

\* get_submission_text(submission), given the result of the root query
GetSubmissionText(store, submission_row, root_comments) ==
    <<[kind |-> "title", text |-> submission_row.title],
      [kind |-> "posted_by", author |-> AuthorName(submission_row.author)]>>
        \o (IF Len(Strip(submission_row.selftext)) > 0
            THEN <<[kind |-> "selftext", text |-> submission_row.selftext]>> ELSE <<>>)
        \o <<[kind |-> "separator"]>>
        \o FormatRoots(store, root_comments, 1)

RECURSIVE ReconcileComments(_, _, _, _)
\* process_submission_comments: the loop from position i on
ReconcileComments(store, cache, comments, i) ==
    IF i > Len(comments) THEN store
    ELSE LET r == ProcessCommentResult("Service", store, cache, comments[i], SubmissionId)
         IN  IF r.raised # NoError THEN store
             ELSE ReconcileComments(r.store, r.cache, comments, i + 1)

\* The stores a committed reconciliation of one snapshot leaves
ReconciledStores(t) ==
    { LET r == ProcessSubmissionResult(EmptyStore, s, SubredditNames[1])
      IN  ReconcileComments(r.store, LoadCache(r.store, s.id), s.comments, 1) :
      s \in Snapshots(t) }

\* A thread of four comments: a is a root comment, c and d answer a, e answers c.
ThreadTree ==
    [k \in {<<"a">>, <<"c">>, <<"d">>, <<"e">>} |->
        IF k = <<"a">> THEN PrefixId(SubmissionId, "Submission")
        ELSE IF k = <<"e">> THEN PrefixId(<<"c">>, "Comment")
        ELSE PrefixId(<<"a">>, "Comment")]

\* submission.comments.list() of a whole thread: its comments in every order
ThreadLists(t, m, e, a) ==
    LET ids == DOMAIN t
        n == Cardinality(ids)
    IN  { [i \in 1 .. n |-> PRAWComment(p[i], t[p[i]], m, e, a)] :
          p \in {q \in [1 .. n -> ids] : \A i, j \in 1 .. n : i # j => q[i] # q[j]} }

\* The stores a committed reconciliation of the whole thread leaves
ThreadStores(t) ==
    UNION { { LET s == PRAWSubmission(m, e, a, l)
                  r == ProcessSubmissionResult(EmptyStore, s, SubredditNames[1])
              IN  ReconcileComments(r.store, LoadCache(r.store, s.id), s.comments, 1) :
              l \in ThreadLists(t, m, e, a) } :
            <<m, e, a>> \in MetaVersions \X EditedValues \X Authors }

\* InformationToDetect.objects.all(): two specs; has_field tells whether the
\* configured response format has a field contains_relevant_examples.
InformationsToDetect ==
    { <<[id |-> 1, has_field |-> f1], [id |-> 2, has_field |-> f2]>> :
      f1 \in BOOLEAN, f2 \in BOOLEAN }

\* The submissions argument of execute (check_subs: Submission.objects...all())
Submissions == CHOOSE o \in OrdersByCreated(db.submissions) : TRUE

\* What client.messages.create can give: a tool call that fits the schema
\* (relevant or not), one that does not fit it, or an API error.
ModelResponses == {"relevant", "not_relevant", "schema_mismatch", "APIError"}

\* execute is called.
ExecuteCheck ==
    /\ check_pc = "idle"
    /\ found_count' = 0
    /\ total_processed' = 0
    /\ info_idx' = 1
    /\ sub_idx' = 1
    /\ check_pc' = IF Len(informations) = 0 \/ Len(Submissions) = 0 THEN "done" ELSE "text"
    /\ UNCHANGED <<informations, submission_text, rendered, model_calls, message,
                   detected, check_error, collectorVars, formatVars, supervisorVars, raceVars>>

\* The head of the loop body: get_submission_text and create_pydantic_model
RenderText ==
    /\ check_pc = "text"
    /\ \E root_comments \in RootComments(db, Submissions[sub_idx]) :
          submission_text' = GetSubmissionText(db, Submissions[sub_idx], root_comments)
    /\ rendered' = rendered \cup
          {[submission |-> Submissions[sub_idx].reddit_id, text |-> submission_text']}
    /\ check_pc' = "call"
    /\ UNCHANGED <<informations, info_idx, sub_idx, model_calls, message, detected,
                   total_processed, found_count, check_error, collectorVars,
                   formatVars, supervisorVars, raceVars>>

\* client.messages.create(...)
ModelCall ==
    /\ check_pc = "call"
    /\ model_calls' = Append(model_calls,
                             <<informations[info_idx].id, Submissions[sub_idx].reddit_id>>)
    /\ \E response \in ModelResponses :
          /\ message' = response
          /\ IF response = "APIError"
             THEN check_error' = "APIError" /\ check_pc' = "failed"
             ELSE check_error' = check_error /\ check_pc' = "parse"
    /\ UNCHANGED <<informations, info_idx, sub_idx, submission_text, rendered, detected,
                   total_processed, found_count, collectorVars, formatVars,
                   supervisorVars, raceVars>>

\* The rest of the loop body: response_format(**function_call), the counters,
\* and the step of the two loops.
ParseResponse ==
    /\ check_pc = "parse"
    /\ IF message = "schema_mismatch"
       THEN /\ check_error' = "ValidationError"
            /\ check_pc' = "failed"
            /\ UNCHANGED <<total_processed, found_count, info_idx, sub_idx>>
       ELSE IF ~informations[info_idx].has_field
       THEN \* formatted_response.contains_relevant_examples
            /\ total_processed' = total_processed + 1
            /\ check_error' = "AttributeError"
            /\ check_pc' = "failed"
            /\ UNCHANGED <<found_count, info_idx, sub_idx>>
       ELSE /\ total_processed' = total_processed + 1
            /\ found_count' = IF message = "relevant" THEN found_count + 1 ELSE found_count
            /\ check_error' = check_error
            /\ IF sub_idx < Len(Submissions)
               THEN sub_idx' = sub_idx + 1 /\ info_idx' = info_idx /\ check_pc' = "text"
               ELSE IF info_idx < Len(informations)
               THEN sub_idx' = 1 /\ info_idx' = info_idx + 1 /\ check_pc' = "text"
               ELSE sub_idx' = sub_idx /\ info_idx' = info_idx /\ check_pc' = "done"
    /\ UNCHANGED <<informations, submission_text, rendered, model_calls, message,
                   detected, collectorVars, formatVars, supervisorVars, raceVars>>

NextCheck == ExecuteCheck \/ RenderText \/ ModelCall \/ ParseResponse

\* check_subs is run on a store that a pass of the collector has filled.
InitCheck ==
    /\ passes = 0 /\ started = 0
    /\ impl = "Service"
    /\ tree \in Trees
    /\ db \in ReconciledStores(tree)
    /\ tx = db
    /\ pc = "idle" /\ phase = "none" /\ submission = None /\ idx = 0
    /\ submission_comments = EmptyCache
    /\ error_raised = FALSE /\ retry_attempts = 0
    /\ exc = NoError /\ error = NoError /\ log = ""
    /\ slept = 0 /\ finished = 0 /\ subreddit = 0 /\ yielded = {}
    /\ FormatIdle /\ SupervisorIdle /\ RaceIdle
    /\ check_pc = "idle"
    /\ informations \in InformationsToDetect
    /\ info_idx = 0 /\ sub_idx = 0
    /\ submission_text = <<>>
    /\ rendered = {}
    /\ model_calls = <<>>
    /\ message = "none"
    /\ detected = {}
    /\ total_processed = 0 /\ found_count = 0
    /\ check_error = NoError

SpecCheck == InitCheck /\ [][NextCheck]_vars

-----------------------------------------------------------------------------
(* One run of execute() to its end *)

\* execute() is called once.
StartOnlyPass == passes = 0 /\ StartPass

NextLive ==
    \/ StartOnlyPass
    \/ NextSubreddit
    \/ ExecuteReturns
    \/ NextSubmission
    \/ ListingEnds
    \/ ProcessSubmission
    \/ ExpandComments
    \/ ProcessComment
    \/ FetchRaises
    \/ FinishSubmission
    \/ LeaveAtomicRaising

\* The stores the run can start from: the empty one, or one that an earlier
\* run filled with a whole thread.
StartStores(t) ==
    {EmptyStore} \cup
    { LET r == ProcessSubmissionResult(EmptyStore, s, SubredditNames[1])
      IN  ReconcileComments(r.store, LoadCache(r.store, s.id), s.comments, 1) :
      s \in {x \in Snapshots(t) :
                 /\ Len(x.comments) = Cardinality(DOMAIN t)
                 /\ x.score = "m1"
                 /\ x.author = <<[name |-> "u1", created_utc |-> 1]>>} }

InitLive ==
    /\ passes = 0 /\ started = 0
    /\ impl = "Service"
    /\ tree \in Trees
    /\ db \in StartStores(tree)
    /\ tx = db
    /\ pc = "idle" /\ phase = "none" /\ submission = None /\ idx = 0
    /\ submission_comments = EmptyCache
    /\ error_raised = FALSE /\ retry_attempts = 0
    /\ exc = NoError /\ error = NoError /\ log = ""
    /\ slept = 0 /\ finished = 0 /\ subreddit = 0 /\ yielded = {}
    /\ FormatIdle /\ SupervisorIdle /\ CheckIdle /\ RaceIdle

\* The worker is one thread that runs to the end of execute(): while the run
\* is under way its next step is eventually taken.
WorkerStep == pc # "idle" /\ NextLive

SpecLive == InitLive /\ [][NextLive]_vars /\ WF_vars(WorkerStep)

-----------------------------------------------------------------------------
(* One run of execute() on rows that were stored under another subreddit *)

\* The subreddit the rows were stored under
OtherSubreddit == "r0"

\* A snapshot as it was fetched then: created_utc values that differ from the
\* ones fetched now
SnapshotThen(s) ==
    [s EXCEPT !.created_utc = 0,
              !.comments = [i \in DOMAIN s.comments |->
                               [s.comments[i] EXCEPT !.created_utc = 0]]]

\* The stores a run over OtherSubreddit left
MovedStores(t) ==
    { LET then == SnapshotThen(s)
          r == ProcessSubmissionResult(EmptyStore, then, OtherSubreddit)
      IN  ReconcileComments(r.store, LoadCache(r.store, then.id), then.comments, 1) :
      s \in {x \in Snapshots(t) :
                 /\ Len(x.comments) >= 1
                 /\ x.score = "m1"
                 /\ x.author = <<[name |-> "u1", created_utc |-> 1]>>} }

InitMoved ==
    /\ passes = 0 /\ started = 0
    /\ impl = "Service"
    /\ tree \in Trees
    /\ db \in MovedStores(tree)
    /\ tx = db
    /\ pc = "idle" /\ phase = "none" /\ submission = None /\ idx = 0
    /\ submission_comments = EmptyCache
    /\ error_raised = FALSE /\ retry_attempts = 0
    /\ exc = NoError /\ error = NoError /\ log = ""
    /\ slept = 0 /\ finished = 0 /\ subreddit = 0 /\ yielded = {}
    /\ FormatIdle /\ SupervisorIdle /\ CheckIdle /\ RaceIdle

SpecMoved == InitMoved /\ [][NextLive]_vars

-----------------------------------------------------------------------------
(* One run of execute() on a store that holds another submission's comment *)

\* Another submission.  Submission ids and comment ids are numbered apart
\* upstream, so one of its comments can have this submission's bare id.
OtherSubmissionId == <<"o">>

\* The stores a run left that collected the other submission with one
\* comment, whose reddit_id is SubmissionId
OtherThreadStores ==
    { LET m == "m1"
          a == <<[name |-> "u1", created_utc |-> 1]>>
          s == [PRAWSubmission(m, e, a,
                    <<PRAWComment(SubmissionId,
                                  PrefixId(OtherSubmissionId, "Submission"), m, e, a)>>)
                EXCEPT !.id = OtherSubmissionId]
          r == ProcessSubmissionResult(EmptyStore, s, SubredditNames[1])
      IN  CreateComment("Service", r.store, LoadCache(r.store, s.id),
                        s.comments[1], s.id).store :
      e \in EditedValues }

InitForest ==
    /\ passes = 0 /\ started = 0
    /\ impl = "Service"
    /\ tree \in Trees
    /\ db \in StartStores(tree) \cup OtherThreadStores
    /\ tx = db
    /\ pc = "idle" /\ phase = "none" /\ submission = None /\ idx = 0
    /\ submission_comments = EmptyCache
    /\ error_raised = FALSE /\ retry_attempts = 0
    /\ exc = NoError /\ error = NoError /\ log = ""
    /\ slept = 0 /\ finished = 0 /\ subreddit = 0 /\ yielded = {}
    /\ FormatIdle /\ SupervisorIdle /\ CheckIdle /\ RaceIdle

SpecForest == InitForest /\ [][NextLive]_vars

-----------------------------------------------------------------------------
(* Two runs of the collector on one database, each in its own transaction *)

\* The snapshots a run can be given (the author deleted)
RaceSnapshots(t) ==
    UNION { { PRAWSubmission("m1", e, None, l) : l \in CommentLists(t, "m1", e, None) } :
            e \in EditedValues }

\* A table with the rows written in a transaction in place
Overlay(table, rows) == {x \in table : ~Exists(rows, x.reddit_id)} \cup rows

\* The store as the transaction of run r reads it: what is committed, and
\* its own writes
Visible(r) ==
    [submissions |-> Overlay(db.submissions, race_updated[r].submissions)
                         \cup race_inserted[r].submissions,
     comments |-> Overlay(db.comments, race_updated[r].comments)
                      \cup race_inserted[r].comments,
     redditors |-> db.redditors]

\* A column without the constraint
UniqueNotEnforced(table, reddit_id) == FALSE

\* reddit_id = CharField(unique=True): an INSERT of a reddit_id that a
\* committed row has violates the constraint.
UniqueViolated(table, reddit_id) == Exists(table, reddit_id)

\* Another open transaction has inserted the reddit_id: the INSERT has to
\* wait for that transaction to end.
PendingElsewhere(r, table_name, reddit_id) ==
    \E o \in Runners \ {r} : Exists(race_inserted[o][table_name], reddit_id)

\* auto_now at the time of the save
SavedNow(row) == [row EXCEPT !.modified_dt = <<race_clock + 1>>]

\* What run r is about to write: an INSERT (the row was not found) or the
\* save of a row it read.
RaceWrite(r) ==
    LET s == race_snapshot[r]
    IN  IF race_pc[r] = "put"
        THEN IF IsNone(race_found[r])
             THEN [insert |-> TRUE, table |-> "submissions", raised |-> NoError,
                   row |-> CHOOSE x \in CreateSubmission(EmptyStore, s,
                                            SubredditNames[1]).store.submissions : TRUE]
             ELSE LET res == ProcessSubmissionResult(
                                 [Visible(r) EXCEPT !.submissions = Save(@, race_found[r][1])],
                                 s, SubredditNames[1])
                  IN  [insert |-> FALSE, table |-> "submissions", raised |-> res.raised,
                       row |-> Get(res.store.submissions, s.id)]
        ELSE LET comment == s.comments[race_idx[r]]
             IN  IF comment.id \in DOMAIN race_cache[r]
                 THEN LET res == ProcessCommentResult("Service", Visible(r), race_cache[r],
                                                      comment, s.id)
                      IN  [insert |-> FALSE, table |-> "comments", raised |-> res.raised,
                           row |-> Get(res.store.comments, comment.id)]
                 ELSE [insert |-> TRUE, table |-> "comments", raised |-> NoError,
                       row |-> CHOOSE x \in CreateComment("Service", EmptyStore,
                                                race_cache[r], comment, s.id).store.comments : TRUE]

\* Run r is at a statement that writes a row.
AtWrite(r) ==
    \/ race_pc[r] = "put"
    \/ race_pc[r] = "comments" /\ race_idx[r] <= Len(race_snapshot[r].comments)

\* Control after a write that succeeded
AfterWrite(r, w) ==
    /\ race_clock' = race_clock + 1
    /\ IF race_pc[r] = "put"
       THEN /\ race_pc' = [race_pc EXCEPT ![r] = "expand"]
            /\ UNCHANGED <<race_idx, race_cache>>
       ELSE /\ race_idx' = [race_idx EXCEPT ![r] = @ + 1]
            /\ race_cache' = [race_cache EXCEPT ![r] =
                                 IF w.insert THEN CacheInsert(@, w.row.reddit_id) ELSE @]
            /\ UNCHANGED race_pc

\* An exception leaves the transaction of run r: its writes are rolled back
\* and, as no except clause takes it, it leaves execute.
RaceFails(r, raised) ==
    /\ race_pc' = [race_pc EXCEPT ![r] = "failed"]
    /\ race_error' = [race_error EXCEPT ![r] = raised]
    /\ race_inserted' = [race_inserted EXCEPT ![r] = NoWrites]
    /\ race_updated' = [race_updated EXCEPT ![r] = NoWrites]
    /\ UNCHANGED <<db, race_snapshot, race_found, race_cache, race_idx, race_clock>>

\* subreddit.new() yields a submission to run r; its transaction begins.
RaceBegin(r) ==
    /\ race_pc[r] = "idle"
    /\ \E s \in RaceSnapshots(tree) : race_snapshot' = [race_snapshot EXCEPT ![r] = s]
    /\ race_pc' = [race_pc EXCEPT ![r] = "get"]
    /\ UNCHANGED <<db, race_found, race_cache, race_idx, race_inserted, race_updated,
                   race_error, race_clock>>

\* process_submission: Submission.objects.get(reddit_id=submission.id)
RaceGet(r) ==
    /\ race_pc[r] = "get"
    /\ race_found' = [race_found EXCEPT ![r] =
          IF Exists(Visible(r).submissions, race_snapshot[r].id)
          THEN <<Get(Visible(r).submissions, race_snapshot[r].id)>> ELSE None]
    /\ race_pc' = [race_pc EXCEPT ![r] = "put"]
    /\ UNCHANGED <<db, race_snapshot, race_cache, race_idx, race_inserted, race_updated,
                   race_error, race_clock>>

\* The save of a row the run read (the update paths)
RaceUpdate(r) ==
    /\ AtWrite(r)
    /\ LET w == RaceWrite(r)
       IN  /\ ~w.insert
           /\ IF w.raised # NoError
              THEN RaceFails(r, w.raised)
              ELSE /\ race_updated' = [race_updated EXCEPT ![r][w.table] =
                          IF Exists(race_inserted[r][w.table], w.row.reddit_id)
                          THEN @ ELSE Save(@, SavedNow(w.row))]
                   /\ race_inserted' = [race_inserted EXCEPT ![r][w.table] =
                          IF Exists(@, w.row.reddit_id) THEN Save(@, SavedNow(w.row)) ELSE @]
                   /\ AfterWrite(r, w)
                   /\ UNCHANGED <<db, race_snapshot, race_found, race_error>>

\* The INSERT of the create paths goes through.
RaceInsert(r) ==
    /\ AtWrite(r)
    /\ LET w == RaceWrite(r)
       IN  /\ w.insert
           /\ ~UniqueViolated(db[w.table], w.row.reddit_id)
           /\ ~PendingElsewhere(r, w.table, w.row.reddit_id)
           /\ race_inserted' = [race_inserted EXCEPT ![r][w.table] = @ \cup {SavedNow(w.row)}]
           /\ AfterWrite(r, w)
           /\ UNCHANGED <<db, race_snapshot, race_found, race_updated, race_error>>

\* The INSERT meets a committed row with the reddit_id: IntegrityError.
RaceInsertRefused(r) ==
    /\ AtWrite(r)
    /\ LET w == RaceWrite(r)
       IN  /\ w.insert
           /\ UniqueViolated(db[w.table], w.row.reddit_id)
    /\ RaceFails(r, "IntegrityError")

\* The INSERT waits for another transaction and the database gives up the
\* wait (lock timeout, deadlock detection): OperationalError.
RaceWaitFails(r) ==
    /\ AtWrite(r)
    /\ LET w == RaceWrite(r)
       IN  /\ w.insert
           /\ ~UniqueViolated(db[w.table], w.row.reddit_id)
           /\ PendingElsewhere(r, w.table, w.row.reddit_id)
    /\ RaceFails(r, "OperationalError")

\* process_submission_comments up to its loop: the cache load
RaceExpand(r) ==
    /\ race_pc[r] = "expand"
    /\ race_cache' = [race_cache EXCEPT ![r] =
          LoadCache(Visible(r), race_snapshot[r].id)]
    /\ race_idx' = [race_idx EXCEPT ![r] = 1]
    /\ race_pc' = [race_pc EXCEPT ![r] = "comments"]
    /\ UNCHANGED <<db, race_snapshot, race_found, race_inserted, race_updated,
                   race_error, race_clock>>

\* The transaction of run r ends normally: its writes are committed.
RaceCommit(r) ==
    /\ race_pc[r] = "comments"
    /\ race_idx[r] > Len(race_snapshot[r].comments)
    /\ db' = [db EXCEPT
                !.submissions = Overlay(@, race_updated[r].submissions)
                                    \cup race_inserted[r].submissions,
                !.comments = Overlay(@, race_updated[r].comments)
                                 \cup race_inserted[r].comments]
    /\ race_inserted' = [race_inserted EXCEPT ![r] = NoWrites]
    /\ race_updated' = [race_updated EXCEPT ![r] = NoWrites]
    /\ race_pc' = [race_pc EXCEPT ![r] = "done"]
    /\ UNCHANGED <<race_snapshot, race_found, race_cache, race_idx, race_error, race_clock>>

\* What no step of the two runs changes
RaceFrame ==
    UNCHANGED <<impl, tree, tx, pc, phase, submission, idx, submission_comments,
                error_raised, retry_attempts, exc, error, log, slept, started,
                finished, passes, subreddit, yielded, formatVars, supervisorVars,
                checkVars>>

NextRace ==
    \E r \in Runners :
        \/ RaceBegin(r) /\ RaceFrame
        \/ RaceGet(r) /\ RaceFrame
        \/ RaceUpdate(r) /\ RaceFrame
        \/ RaceInsert(r) /\ RaceFrame
        \/ RaceInsertRefused(r) /\ RaceFrame
        \/ RaceWaitFails(r) /\ RaceFrame
        \/ RaceExpand(r) /\ RaceFrame
        \/ RaceCommit(r) /\ RaceFrame

\* The stores the two runs can start from: the empty one, or one that holds
\* the submission without comments.
RaceStores(t) ==
    {EmptyStore} \cup
    { ProcessSubmissionResult(EmptyStore, s, SubredditNames[1]).store :
      s \in {x \in RaceSnapshots(t) : Len(x.comments) = 0} }

InitRace ==
    /\ passes = 0 /\ started = 0
    /\ impl = "Service"
    /\ tree \in Trees
    /\ db \in RaceStores(tree)
    /\ tx = db
    /\ pc = "idle" /\ phase = "none" /\ submission = None /\ idx = 0
    /\ submission_comments = EmptyCache
    /\ error_raised = FALSE /\ retry_attempts = 0
    /\ exc = NoError /\ error = NoError /\ log = ""
    /\ slept = 0 /\ finished = 0 /\ subreddit = 0 /\ yielded = {}
    /\ FormatIdle /\ SupervisorIdle /\ CheckIdle /\ RaceIdle

SpecRace == InitRace /\ [][NextRace]_vars

-----------------------------------------------------------------------------
(* get_submission_text called on its own *)

\* get_submission_text(submission) for a stored submission
GetSubmissionTextCall ==
    /\ submission_text = <<>>
    /\ \E submission_row \in db.submissions :
          \E root_comments \in RootComments(db, submission_row) :
             /\ submission_text' = GetSubmissionText(db, submission_row, root_comments)
             /\ rendered' = rendered \cup
                   {[submission |-> submission_row.reddit_id, text |-> submission_text']}
    /\ UNCHANGED <<check_pc, informations, info_idx, sub_idx, model_calls, message,
                   detected, total_processed, found_count, check_error, collectorVars,
                   formatVars, supervisorVars, raceVars>>

\* The store holds one thread that a pass of the collector has reconciled.
InitText ==
    /\ passes = 0 /\ started = 0
    /\ impl = "Service"
    /\ tree = ThreadTree
    /\ db \in ThreadStores(tree)
    /\ tx = db
    /\ pc = "idle" /\ phase = "none" /\ submission = None /\ idx = 0
    /\ submission_comments = EmptyCache
    /\ error_raised = FALSE /\ retry_attempts = 0
    /\ exc = NoError /\ error = NoError /\ log = ""
    /\ slept = 0 /\ finished = 0 /\ subreddit = 0 /\ yielded = {}
    /\ FormatIdle /\ SupervisorIdle /\ CheckIdle /\ RaceIdle

SpecText == InitText /\ [][GetSubmissionTextCall]_vars

-----------------------------------------------------------------------------
(* get_submission_text called while a run of execute() is under way *)

\* The classifier is another process: it renders a stored submission from
\* the committed rows at any point of the collector's run.
NextRender ==
    \/ StartOnlyPass
    \/ NextSubreddit
    \/ ExecuteReturns
    \/ NextSubmission
    \/ ListingEnds
    \/ ProcessSubmission
    \/ ExpandComments
    \/ ProcessComment
    \/ FetchRaises
    \/ FinishSubmission
    \/ LeaveAtomicRaising
    \/ GetSubmissionTextCall

SpecRender == InitForest /\ [][NextRender]_vars

-----------------------------------------------------------------------------
(* Claims, continued *)

\* C15: stripping the result of prefixing a bare id with a recognised kind
\* returns the bare id.
C15_RoundTrip ==
    (format_pc = "reformatted" /\ arg_id_type \in {<<k>> : k \in Kinds}) =>
        /\ formatted.raised = NoError
        /\ reformatted.raised = NoError
        /\ reformatted.value = arg_id_str

\* The round trip was made for a bare id that itself looks like a prefix.
C15_Witness ==
    /\ format_pc = "reformatted"
    /\ arg_id_type = <<"Award">>
    /\ arg_id_str = <<"t", "3", "_">>
    /\ formatted.value = <<"t", "6", "_", "t", "3", "_">>
    /\ reformatted.value = arg_id_str

\* C16 (as claimed): format_id given an arg_id_type that is none of the six kinds
\* raises and returns no identifier.
C16_InvalidKindRaises ==
    (format_pc = "formatted" /\ ~IsNone(arg_id_type) /\ arg_id_type[1] \notin Kinds) =>
        formatted.raised # NoError

\* C17: an invocation of function that follows one that raised
\* TooManyRequests is preceded by one sleep of 600 seconds and nothing else;
\* one that follows a return or another Exception is preceded by one sleep
\* of pauze_seconds.
C17_WaitPolicy ==
    [][ (sup_pc = "loop" /\ sup_pc' = "function" /\ runs >= 1) =>
            /\ outcome \in {"returned", "TooManyRequests", "Exception"}
            /\ waits = IF outcome = "TooManyRequests" THEN <<RateLimitSleep>>
                       ELSE <<pauze_seconds>> ]_vars

\* The function was called again after a rate limit, a return and another
\* Exception, with the default pause.
C17_Witness ==
    /\ sup_pc = "function"
    /\ runs = 4
    /\ pauze_seconds = DefaultPauzeSeconds
    /\ sup_slept = RateLimitSleep + 2 * DefaultPauzeSeconds

\* C18 (as claimed): when execute has ended, every (spec, submission) pair has
\* had one model call, and for each call that succeeded there is a
\* DetectedInformation record of that submission and that spec.
C18_Persisted ==
    (check_pc = "done") =>
        /\ \A i \in 1 .. Len(informations), j \in 1 .. Len(Submissions) :
              Cardinality({k \in DOMAIN model_calls : model_calls[k] =
                              <<informations[i].id, Submissions[j].reddit_id>>}) = 1
        /\ \A k \in DOMAIN model_calls :
              [information_tsf |-> model_calls[k][1], submission |-> model_calls[k][2]]
                  \in detected

\* C19 (as claimed): when execute has ended, by returning or by a failure of
\* one pair, the model was called for every (spec, submission) pair.
C19_FailureIsolated ==
    (check_pc \in {"done", "failed"}) =>
        \A i \in 1 .. Len(informations), j \in 1 .. Len(Submissions) :
            \E k \in DOMAIN model_calls :
                model_calls[k] = <<informations[i].id, Submissions[j].reddit_id>>

\* C20 (as claimed): all the texts get_submission_text returned for one
\* submission over the same, unchanged store are the same text.
C20_Deterministic ==
    \A r1, r2 \in rendered : r1.submission = r2.submission => r1.text = r2.text

\* The comment pieces of a text, in the order of the text
CommentPieces(text) == SelectSeq(text, LAMBDA piece : piece.kind = "comment")

\* The stored comment a comment piece renders
RowOf(piece) == CHOOSE r \in db.comments : r.body = piece.body

\* The number of ancestors of a stored comment
Depth(reddit_id) ==
    Cardinality(AncestorsOf(db.comments, reddit_id, Cardinality(db.comments)))

\* C21: in the transcript every stored comment appears once; a comment at
\* tree depth d is indented by 4*d spaces; a comment that has a parent comes
\* after it with only descendants of that parent in between (depth-first
\* pre-order); and comments with the same parent, the root comments among
\* them, appear in ascending created_utc.
C21_Structure ==
    (submission_text # <<>>) =>
        LET P == CommentPieces(submission_text)
            row(k) == RowOf(P[k])
            n == Cardinality(db.comments)
        IN  /\ \A r \in db.comments :
                  Cardinality({k \in DOMAIN P : P[k].body = r.body}) = 1
            /\ \A k \in DOMAIN P : P[k].indent = 4 * Depth(row(k).reddit_id)
            /\ \A k \in DOMAIN P :
                  IF IsNone(row(k).parent) THEN P[k].indent = 0
                  ELSE \E j \in 1 .. (k - 1) :
                          /\ row(j).reddit_id = row(k).parent
                          /\ P[k].indent = P[j].indent + 4
                          /\ \A i \in (j + 1) .. (k - 1) :
                                row(j).reddit_id \in AncestorsOf(db.comments, row(i).reddit_id, n)
            /\ \A j, k \in DOMAIN P :
                  (j < k /\ row(j).parent = row(k).parent) =>
                      row(j).created_utc[1] <= row(k).created_utc[1]

\* The whole thread was rendered: a, its child c, the grandchild e, then the
\* later child d.
C21_Witness ==
    /\ submission_text # <<>>
    /\ LET P == CommentPieces(submission_text)
       IN  /\ Len(P) = 4
           /\ <<P[1].indent, P[2].indent, P[3].indent, P[4].indent>> = <<0, 4, 8, 4>>
           /\ <<RowOf(P[1]).reddit_id, RowOf(P[2]).reddit_id,
                RowOf(P[3]).reddit_id, RowOf(P[4]).reddit_id>>
                  = << <<"a">>, <<"c">>, <<"e">>, <<"d">> >>

\* C22: the transcript starts with the title line, then the author line, which
\* shows [deleted] exactly when the submission has no author, then the body
\* exactly when selftext is not blank, then the separator; every comment comes
\* after the separator and shows [deleted] exactly when it has no author.
C22_Header ==
    (submission_text # <<>>) =>
        LET text == submission_text
            row == CHOOSE r \in db.submissions : TRUE
            blank == \A i \in DOMAIN row.selftext : row.selftext[i] \in Whitespace
            n == IF blank THEN 3 ELSE 4
        IN  /\ text[1] = [kind |-> "title", text |-> row.title]
            /\ text[2].kind = "posted_by"
            /\ text[2].author = (IF IsNone(row.author) THEN "[deleted]" ELSE row.author[1])
            /\ text[2].author = "[deleted]" <=> IsNone(row.author)
            /\ ~blank => text[3] = [kind |-> "selftext", text |-> row.selftext]
            /\ text[n] = [kind |-> "separator"]
            /\ \A k \in DOMAIN text :
                  /\ text[k].kind \in {"title", "posted_by", "selftext", "separator"} <=> k <= n
                  /\ text[k].kind = "comment" =>
                        /\ text[k].author = "[deleted]" <=> IsNone(RowOf(text[k]).author)
                        /\ ~IsNone(RowOf(text[k]).author) =>
                              text[k].author = RowOf(text[k]).author[1]

\* A submission without author whose selftext is whitespace only was
\* rendered, with comments without author.
C22_Witness ==
    /\ submission_text # <<>>
    /\ \E r \in db.submissions : IsNone(r.author) /\ r.selftext = <<" ", "\n">>
    /\ submission_text[2].author = "[deleted]"
    /\ submission_text[3].kind = "separator"
    /\ submission_text[4].kind = "comment"
    /\ submission_text[4].author = "[deleted]"

\* The reddit_ids of the stored comments of a submission
StoredCommentIds(store, submission_id) ==
    {r.reddit_id : r \in {x \in store.comments : x.submission = submission_id}}

\* C23: when an attempt commits, the committed store holds exactly one
\* Submission row with the fetched id and, for every comment of the fetched
\* list, exactly one Comment row with its id, belonging to that submission; a
\* submission or comment that has no row is created, and its absence is not
\* the exception that leaves the step.
C23_Complete ==
    [][ /\ (pc = "comments" /\ idx > Len(submission.comments)) =>
              /\ Cardinality({r \in db'.submissions : r.reddit_id = submission.id}) = 1
              /\ \A i \in DOMAIN submission.comments :
                    LET rows == {r \in db'.comments :
                                    r.reddit_id = submission.comments[i].id}
                    IN  /\ Cardinality(rows) = 1
                        /\ \A r \in rows : r.submission = submission.id
        /\ (SubmissionStepTaken /\ ~Exists(tx.submissions, submission.id)) =>
              /\ log' = "Creating new submission"
              /\ exc' \notin {"DoesNotExist", "KeyError"}
              /\ pc' = "expand" => Exists(tx'.submissions, submission.id)
        /\ (CommentStepTaken /\ ~Exists(tx.comments, submission.comments[idx].id)) =>
              /\ log' = "Creating new comment"
              /\ exc' \notin {"DoesNotExist", "KeyError"}
              /\ idx' = idx + 1 => Exists(tx'.comments, submission.comments[idx].id) ]_vars

\* The first attempt for a snapshot with two comments committed on a store
\* that was empty.
C23_Witness ==
    /\ passes = 1
    /\ phase = "loop"
    /\ pc = "process_submission"
    /\ finished = 1
    /\ started = 2
    /\ Len(submission.comments) = 2
    /\ Cardinality(db.comments) = 2
    /\ Cardinality(db.submissions) = 1

SupervisorBranch(raised) ==
    IF raised = NoError THEN "returned"
    ELSE IF raised = "TooManyRequests" THEN "TooManyRequests"
    ELSE "Exception"

\* C25 (as claimed): when the rate-limit handler of process_subreddit stops
\* retrying a submission, the error that leaves the service makes the
\* supervisor take its rate-limit branch.
C25_ReachesSupervisorAsRateLimit ==
    (pc = "idle" /\ error # NoError /\ log = RateLimitLog) =>
        SupervisorBranch(error) = "TooManyRequests"

\* C26: the while loop of process_subreddit makes at most one attempt for a
\* submission, and an attempt made in the loop is followed by the end of the
\* loop: the listing goes on (the attempt committed) or an error has left
\* execute.
C26_RetryLoopEnds ==
    /\ [](phase = "loop" => started <= 2)
    /\ (pc = "process_submission" /\ phase = "loop") ~> (pc \in {"listing", "idle"})

\* The attempt of the loop was rate limited and the loop was left by the
\* error raised in the handler.
C26_Witness ==
    /\ pc = "idle"
    /\ phase = "loop"
    /\ log = RateLimitLog
    /\ error # NoError
    /\ started = 2

\* C27 (as claimed): an attempt for a submission that follows an attempt of
\* the same submission that raised TooManyRequests starts after a sleep of 15
\* seconds.
C27_PauseBeforeRetry ==
    [][ (pc = "raising" /\ exc = "TooManyRequests" /\ pc' = "process_submission") =>
            slept' = slept + SleepSeconds ]_vars

\* C28: an exception other than TooManyRequests raised in an attempt leaves
\* execute at once: the attempt is rolled back, nothing sleeps, no attempt
\* starts.
C28_OnlyRateLimitsRetried ==
    [][ (pc = "raising" /\ exc # "TooManyRequests") =>
            /\ pc' = "idle"
            /\ error' = exc
            /\ db' = db
            /\ tx' = db
            /\ slept' = slept
            /\ started' = started ]_vars

\* An attempt that had written the submission row raised an error that is not
\* the rate limit; the pass ended with that error, the write is gone and
\* nothing slept.
C28_Witness ==
    /\ pc = "idle"
    /\ error \notin {NoError, "TooManyRequests", "NameError"}
    /\ idx >= 1
    /\ slept = 0
    /\ tx = db
    /\ Get(db.submissions, submission.id).score # submission.score

\* C29: call_function_repeatedly leaves its loop only by an exception that is
\* no Exception; after a return, a TooManyRequests or another Exception of
\* function, function is invoked again (as long as the model counts runs).
C29_SupervisorLive ==
    /\ [](sup_pc = "stopped" => outcome = "BaseException")
    /\ [](sup_pc = "loop" /\ runs >= 1 =>
              outcome \in {"returned", "TooManyRequests", "Exception"})
    /\ (sup_pc = "loop" /\ runs < MaxRuns) ~> (sup_pc = "function")

\* function was invoked again after an invocation that raised an Exception
\* other than the rate limit.
C29_Witness ==
    /\ sup_pc = "function"
    /\ runs = 3
    /\ outcome = "Exception"
    /\ waits = <<>>

\* Whether the edited time new is not earlier than old (None: never edited)
NotEarlier(old, new) ==
    IF IsNone(old) THEN TRUE
    ELSE IF IsNone(new) THEN FALSE
    ELSE new[1] >= old[1]

\* Every row of the table before is in the table after, with an edited_utc
\* that is not earlier.
EditedMonotone(before, after) ==
    \A r \in before : \E q \in after :
        q.reddit_id = r.reddit_id /\ NotEarlier(r.edited_utc, q.edited_utc)

\* C30: no step moves the edited_utc of a committed submission or comment to
\* an earlier time or to null; inside a transaction only the rollback does;
\* and a full update stores the fetched edited time.
C30_EditedMonotone ==
    [][ /\ EditedMonotone(db.submissions, db'.submissions)
        /\ EditedMonotone(db.comments, db'.comments)
        /\ pc # "raising" =>
              /\ EditedMonotone(tx.submissions, tx'.submissions)
              /\ EditedMonotone(tx.comments, tx'.comments)
        /\ (SubmissionStepTaken /\ pc' = "expand"
                /\ log' = "Updating existing submission due to new edits") =>
              Get(tx'.submissions, submission.id).edited_utc =
                  FromTimestamp(submission.edited)
        /\ (CommentStepTaken /\ idx' = idx + 1
                /\ log' = "Updating existing comment due to new edits") =>
              Get(tx'.comments, submission.comments[idx].id).edited_utc =
                  FromTimestamp(submission.comments[idx].edited) ]_vars

\* A later pass fetched a submission and a comment with the edited time 1,
\* older than the stored time 2, and left the stored time of both.
C30_Witness ==
    /\ passes = 2
    /\ pc = "comments"
    /\ idx = 2
    /\ submission.edited = 1
    /\ Get(tx.comments, submission.comments[1].id).edited_utc = <<2>>
    /\ Get(tx.submissions, submission.id).edited_utc = <<2>>

\* Every row of before that after still holds has the same values in fields.
SameIdentity(before, after, fields) ==
    \A r \in before : \A q \in after :
        q.reddit_id = r.reddit_id => \A f \in fields : q[f] = r[f]

\* C31: no step changes the subreddit or created_utc of a stored submission,
\* or the submission or created_utc of a stored comment, or gives the row of
\* a reddit_id to another reddit_id: every update leaves the row in place
\* with these fields as they were, also when the snapshot was fetched under
\* another subreddit and with other creation times.
C31_IdentityImmutable ==
    [][ /\ SameIdentity(db.submissions, db'.submissions, {"subreddit", "created_utc"})
        /\ SameIdentity(tx.submissions, tx'.submissions, {"subreddit", "created_utc"})
        /\ SameIdentity(db.comments, db'.comments, {"submission", "created_utc"})
        /\ SameIdentity(tx.comments, tx'.comments, {"submission", "created_utc"})
        /\ (SubmissionStepTaken /\ pc' = "expand" /\ Exists(tx.submissions, submission.id)) =>
              {r.reddit_id : r \in tx'.submissions} = {r.reddit_id : r \in tx.submissions}
        /\ (CommentStepTaken /\ idx' = idx + 1
                /\ submission.comments[idx].id \in DOMAIN submission_comments) =>
              {r.reddit_id : r \in tx'.comments} = {r.reddit_id : r \in tx.comments} ]_vars

\* The full update of a submission row ran for a snapshot fetched under r1
\* with a creation time the row does not have, and the row has the subreddit
\* and the creation time it was stored with.
C31_Witness ==
    /\ pc = "expand"
    /\ log = "Updating existing submission due to new edits"
    /\ SubredditNames[subreddit] # OtherSubreddit
    /\ LET row == Get(tx.submissions, submission.id)
       IN  /\ row.subreddit = OtherSubreddit
           /\ row.created_utc # FromTimestamp(submission.created_utc)
           /\ row.title = submission.title
           /\ row.modified_dt = Now

\* No two rows of the table have the same reddit_id.
UniqueIds(table) == \A r1, r2 \in table : r1.reddit_id = r2.reddit_id => r1 = r2

\* C32: with two runs interleaved in any way, no two committed Submission
\* rows and no two committed Comment rows share a reddit_id; a run whose
\* INSERT meets a row that another run committed after this run had found it
\* absent fails, and a run that failed has rolled back: the store does not
\* change by its failure and none of its writes remain.
C32_UniqueUnderRace ==
    /\ [](UniqueIds(db.submissions) /\ UniqueIds(db.comments))
    /\ [](\A r \in Runners :
             race_pc[r] = "failed" =>
                 /\ race_error[r] # NoError
                 /\ race_inserted[r] = NoWrites
                 /\ race_updated[r] = NoWrites)
    /\ [][ \A r \in Runners :
              /\ (race_pc[r] # "failed" /\ race_pc'[r] = "failed") => db' = db
              /\ ( /\ race_pc[r] = "put"
                   /\ IsNone(race_found[r])
                   /\ Exists(db.submissions, race_snapshot[r].id)
                   /\ race_pc'[r] # "put" ) =>
                     /\ race_pc'[r] = "failed"
                     /\ race_error'[r] = "IntegrityError" ]_vars

\* Both runs found the submission absent; one committed it with its comments,
\* the other failed on its INSERT and left nothing.
C32_Witness ==
    /\ race_pc[1] = "done"
    /\ race_pc[2] = "failed"
    /\ race_error[2] = "IntegrityError"
    /\ IsNone(race_found[1])
    /\ IsNone(race_found[2])
    /\ Cardinality(db.submissions) = 1
    /\ Cardinality(db.comments) = 2
    /\ Len(race_snapshot[2].comments) = 2

RECURSIVE ReachesNull(_, _, _)
\* Following parent links from the comment reaches a null parent within n steps.
ReachesNull(comments, reddit_id, n) ==
    IF n = 0 \/ ~Exists(comments, reddit_id) THEN FALSE
    ELSE LET p == Get(comments, reddit_id).parent
         IN  IF IsNone(p) THEN TRUE ELSE ReachesNull(comments, p, n - 1)

\* The comments of the store are a forest inside each submission.
Forest(store) ==
    \A r \in store.comments :
        /\ ~IsNone(r.parent) =>
               /\ Exists(store.comments, r.parent)
               /\ Get(store.comments, r.parent).submission = r.submission
        /\ ReachesNull(store.comments, r.reddit_id, Cardinality(store.comments))

\* C33: in every state of the committed store and of the store inside the
\* transaction, a comment with a parent has a parent that is stored under
\* the same submission, and the parent links from every comment end at a
\* null parent.
C33_Forest == Forest(db) /\ Forest(tx)

\* A run has committed a submission whose comment c is stored under comment a,
\* while root comment a has no parent although another submission's comment
\* has the bare id that a's parent reference strips to.
C33_Witness ==
    /\ pc = "listing"
    /\ finished >= 1
    /\ \E o \in db.comments : o.reddit_id = SubmissionId /\ o.submission = OtherSubmissionId
    /\ \E r \in db.comments :
          r.reddit_id = <<"a">> /\ r.submission = SubmissionId /\ IsNone(r.parent)
    /\ \E r \in db.comments :
          r.reddit_id = <<"c">> /\ r.submission = SubmissionId /\ r.parent = <<"a">>

\* The transcript has one comment piece for each stored comment of the
\* submission, with its author and body, and no other comment piece; the
\* piece of a comment stored without a parent is not indented.
Covers(store, submission_id, text) ==
    LET P == CommentPieces(text)
        rows == {r \in store.comments : r.submission = submission_id}
    IN  /\ Len(P) = Cardinality(rows)
        /\ \A r \in rows :
              /\ Cardinality({k \in DOMAIN P : P[k].body = r.body}) = 1
              /\ \A k \in DOMAIN P :
                    P[k].body = r.body =>
                        /\ P[k].author = AuthorName(r.author)
                        /\ IsNone(r.parent) => P[k].indent = 0
        /\ \A k \in DOMAIN P : \E r \in rows : r.body = P[k].body

\* C34: whenever get_submission_text renders a stored submission, in any
\* committed store that reconciliation leaves, the transcript holds every
\* stored comment of that submission once and nothing else; a comment stored
\* with a null parent because its parent was not resolved is among them, as
\* a root.
C34_CoversForest ==
    [][ (submission_text = <<>> /\ submission_text' # <<>>) =>
            /\ rendered' # rendered
            /\ \A x \in rendered' \ rendered :
                  /\ x.text = submission_text'
                  /\ Covers(db, x.submission, x.text) ]_vars

\* Comment c answers comment a upstream but was stored first, with a null
\* parent; the transcript of the submission shows both as roots, while the
\* store also holds a comment of another submission.
C34_Witness ==
    /\ submission_text # <<>>
    /\ tree[<<"c">>] = PrefixId(<<"a">>, "Comment")
    /\ \E x \in rendered : x.submission = SubmissionId /\ x.text = submission_text
    /\ \E o \in db.comments : o.submission = OtherSubmissionId
    /\ \E r \in db.comments : r.reddit_id = <<"c">> /\ IsNone(r.parent)
    /\ LET P == CommentPieces(submission_text)
       IN  /\ Len(P) = 2
           /\ P[1].indent = 0 /\ P[2].indent = 0
           /\ {RowOf(P[1]).reddit_id, RowOf(P[2]).reddit_id} = { <<"a">>, <<"c">> }

\* C35 (as claimed): after a comment is created or fully updated, its stored
\* distinguished value is the fetched raw value: null stays null and a label
\* stays that label, in CollectSubmissionsService and in CollectThreadsUseCase.
C35_RawDistinguished ==
    [][ ( /\ CommentStepTaken
          /\ idx' = idx + 1
          /\ log' \in {"Creating new comment", "Updating existing comment due to new edits"} )
        => Get(tx'.comments, submission.comments[idx].id).distinguished =
               submission.comments[idx].distinguished ]_vars

====
